---- MODULE Spec2Model ----
(***************************************************************************)
(* Model of the Advotac retrieval-augmented answering pipeline:            *)
(*   src/fastapi/services/answer_llm.py   (single collection, "llm")       *)
(*   src/fastapi/services/answer_llm2.py  (multi collection,  "llm2")      *)
(*                                                                         *)
(* Conventions.                                                            *)
(*  - Scores and thresholds are floats in the code; here they are integers *)
(*    in hundredths (0.70 is 70).                                          *)
(*  - A payload is the metadata dict of a retrieved point.  Its strings    *)
(*    are represented by what the code reads of them: the tier fields by   *)
(*    a token (TierVals), the other fields by truthiness and by length.    *)
(*  - A sequence index is 1-based here and 0-based in the code; the ids    *)
(*    the reranking model returns keep the code's 0-based numbering.       *)
(***************************************************************************)
EXTENDS Integers, Sequences, FiniteSets, TLC

\* ------------------------------------------------------------------ bounds
\* Largest number of hits the vector store returns for one query (pooled).
MaxHits == 2
\* Largest top_k a caller passes.
MaxTopK == 2
\* Longest list the expansion model returns.
MaxExpand == 6
\* Longest list of rows the reranking model returns.
MaxRows == 2
\* Longest list of scored hits handed to weighted_blend on its own.
MaxBlendHits == 4
\* Largest top_k handed to weighted_blend on its own.
MaxBlendTopK == 6
\* A top_k at which the float product total * 0.55 lies above a tie.
LargeTopK == 110
\* Longest list of hits handed to split_context_by_layer on its own.
MaxSplitHits == 3
\* How many times a function is called on the same arguments.
MaxCalls == 2
\* Longest pool handed to heuristic_rerank on its own.
MaxHeurHits == 3
\* Most requests of one user that are under way together.
MaxRequests == 3

\* --------------------------------------------------------- program constants
\* answer_llm.rewrite_queries keeps queries[:5].
ExpandCap == 5
\* split_context_by_layer(max_chars=7500) in answer_llm, 8000 in answer_llm2.
MaxCharsLlm == 7500
MaxCharsLlm2 == 8000
\* llm_rerank submits hits[:24] in answer_llm, hits[:20] in answer_llm2.
RerankCapLlm == 24
RerankCapLlm2 == 20
\* LAYER_WEIGHTS, in hundredths.
WeightL1 == 15
WeightL2 == 55
\* heuristic_rerank(alpha=0.65, beta=0.25, gamma=0.10), in hundredths.
Alpha == 65
Beta == 25
Gamma == 10
\* prior_boost_for_hit caps the boost at 0.35.
PriorCap == 35
\* len("[[META]] " + "\n[[TEXT]] " + "\n"), the fixed part of a block.
BlockFrame == 20
\* len(" | " + " | "): answer_llm2 always joins its three meta fields.
MetaFrameLlm2 == 6
\* len("\n---\n"), the separator between two blocks of one bucket.
JoinLen == 5
\* CreditPlanDB.assistant_general: the credits a "General" task costs.
CreditCost == 4
\* DEFAULT_INITIAL_CREDITS: the credit of a balance row ensure_credit_balance creates.
DEFAULT_INITIAL_CREDITS == 80
\* The user has no credit_balance row: the query's .first() is None.
NoRow == -1

Canned == "No directly relevant section found in the available Acts."
Variants == {"llm", "llm2"}
Layers == {"L1", "L2", "L3"}
\* COLLECTIONS of answer_llm2, in the order multi_search queries them.
COLLECTIONS == <<"advotac_acts_L1", "advotac_acts_L2", "advotac_acts_L3">>
\* QDRANT_COLLECTION default of answer_llm.
QDRANT_COLLECTION == "central_acts_v2"

\* ----------------------------------------------------------------- helpers
Min(a, b) == IF a <= b THEN a ELSE b
Max(a, b) == IF a >= b THEN a ELSE b
Range(s) == {s[i] : i \in 1..Len(s)}

\* seq[:n] of Python for n >= 0.
Take(s, n) == SubSeq(s, 1, Min(Len(s), n))
\* seq[n:] of Python for n >= 0.
Drop(s, n) == SubSeq(s, Min(Len(s), n) + 1, Len(s))

\* All sequences over S of length 0..n.
SeqsUpTo(S, n) == UNION {[1..k -> S] : k \in 0..n}

\* list.sort(key=lambda x: x.key, reverse=True) on a sequence of records with
\* a field key: descending by key, stable (elements with equal keys keep their
\* input order).
RECURSIVE InsertDesc(_, _)
InsertDesc(x, s) ==
  IF s = <<>> THEN <<x>>
  ELSE IF x.key >= Head(s).key THEN <<x>> \o s
       ELSE <<Head(s)>> \o InsertDesc(x, Tail(s))

RECURSIVE SortDesc(_)
SortDesc(s) ==
  IF s = <<>> THEN <<>>
  ELSE InsertDesc(Head(s), SortDesc(Tail(s)))

\* Python's round() of a float that is exactly the rational num/den (den > 0,
\* num >= 0): to the nearest integer, a tie going to the even one.
RoundHalfEven(num, den) ==
  LET q == num \div den
      r == num % den
  IN IF 2 * r < den THEN q
     ELSE IF 2 * r > den THEN q + 1
     ELSE IF q % 2 = 0 THEN q ELSE q + 1

\* ------------------------------------------------------------- data model
\* What a tier field of a payload (layer / level / chunk_level) may hold:
\*   "absent" the key is missing;  "L1","L2","L3" a valid tier;
\*   "l3" a valid tier once stripped and upper-cased;  "X" another string;
\*   "" the empty string;  "num" a non-string value (a number).
TierVals == {"absent", "L1", "L2", "L3", "l3", "X", "", "num"}

\* str(v).strip().upper() of a present tier value.
NormTier(v) == IF v = "l3" THEN "L3" ELSE IF v = "num" THEN "3" ELSE v

\* Python truthiness of a present tier value (a number 3 is truthy).
TruthyTier(v) == v \notin {"absent", ""}

\* collection.split("_")[-1].upper()
CollectionSuffix(c) ==
  CASE c = "advotac_acts_L1" -> "L1"
    [] c = "advotac_acts_L2" -> "L2"
    [] c = "advotac_acts_L3" -> "L3"
    [] c = "central_acts_v2" -> "V2"
    [] OTHER -> ""

\* A payload with no field set.
EmptyPayload ==
  [layer |-> "absent", level |-> "absent", chunk_level |-> "absent",
   section_number |-> FALSE, section_number_norm |-> FALSE,
   clause |-> FALSE, sub_section |-> FALSE, text_paren |-> FALSE,
   meta_len |-> 0, text_len |-> 0, overlap |-> 0, pboost |-> 0]

\* Hit(score, collection, payload); id tells the retrieved points apart.
MkHit(i, sc, col, p) == [id |-> i, score |-> sc, collection |-> col, payload |-> p]

\* --------------------------------------------------------- layer detection
\* answer_llm.detect_layer: the first of layer / level / chunk_level that is
\* present and valid once str()-ed, stripped and upper-cased; else the
\* structural heuristic.
DetectLayer(p) ==
  IF p.layer # "absent" /\ NormTier(p.layer) \in Layers THEN NormTier(p.layer)
  ELSE IF p.level # "absent" /\ NormTier(p.level) \in Layers THEN NormTier(p.level)
  ELSE IF p.chunk_level # "absent" /\ NormTier(p.chunk_level) \in Layers
       THEN NormTier(p.chunk_level)
  ELSE LET has_sec == p.section_number \/ p.section_number_norm
           has_clause == p.clause \/ p.sub_section \/ p.text_paren
       IN IF has_clause THEN "L3" ELSE IF has_sec THEN "L2" ELSE "L1"

\* isinstance(value, str) and value.strip(), then value.strip().upper() valid.
ValidTierString(v) == v \notin {"absent", "num", ""} /\ NormTier(v) \in Layers

\* A variant of ResolveLayer that reads sub_section / section_number before
\* the collection suffix.
ResolveLayer_HeuristicFirst(p, collection) ==
  IF ValidTierString(p.layer) THEN NormTier(p.layer)
  ELSE IF ValidTierString(p.level) THEN NormTier(p.level)
  ELSE IF ValidTierString(p.chunk_level) THEN NormTier(p.chunk_level)
  ELSE IF p.sub_section THEN "L3"
  ELSE IF p.section_number THEN "L2"
  ELSE IF collection # "" /\ CollectionSuffix(collection) \in Layers
       THEN CollectionSuffix(collection)
  ELSE "L1"

\* answer_llm2._resolve_layer: explicit tier field, then collection suffix,
\* then sub_section / section_number.
ResolveLayer(p, collection) ==
  IF ValidTierString(p.layer) THEN NormTier(p.layer)
  ELSE IF ValidTierString(p.level) THEN NormTier(p.level)
  ELSE IF ValidTierString(p.chunk_level) THEN NormTier(p.chunk_level)
  ELSE IF collection # "" /\ CollectionSuffix(collection) \in Layers
       THEN CollectionSuffix(collection)
  ELSE IF p.sub_section THEN "L3"
  ELSE IF p.section_number THEN "L2"
  ELSE "L1"

\* answer_llm2.split_context_by_layer and llm_rerank:
\*   p.get("layer") or h.collection.split("_")[-1].upper()
\* The raw value of the field when truthy (not normalised), else the suffix.
RawLayer(h) ==
  IF TruthyTier(h.payload.layer) THEN h.payload.layer
  ELSE CollectionSuffix(h.collection)

\* ---------------------------------------------------------- context builder
\* len(block) of answer_llm: "[[META]] {meta}\n[[TEXT]] {text}\n", where
\* meta_len is the length of the joined meta line.
BlockLenLlm(h) == BlockFrame + h.payload.meta_len + h.payload.text_len

\* len(block) of answer_llm2: the meta line always holds its two " | ".
BlockLenLlm2(h) ==
  BlockFrame + MetaFrameLlm2 + h.payload.meta_len + h.payload.text_len

\* The buckets before the loop: l1, l2, l3 hold the ids of the hits whose
\* block they hold, in order; total is the running character count.
EmptyCtx == [l1 |-> <<>>, l2 |-> <<>>, l3 |-> <<>>, total |-> 0]

\* answer_llm.split_context_by_layer, the loop from hits[i] on.
RECURSIVE SplitLoopLlm(_, _, _, _)
SplitLoopLlm(hits, i, c, max_chars) ==
  IF i > Len(hits) THEN c
  ELSE LET h == hits[i]
           n == BlockLenLlm(h)
           layer == DetectLayer(h.payload)
       IN IF c.total + n > max_chars THEN c
          ELSE SplitLoopLlm(hits, i + 1,
                 [l1 |-> IF layer \notin {"L3", "L2"} THEN Append(c.l1, h.id) ELSE c.l1,
                  l2 |-> IF layer = "L2" THEN Append(c.l2, h.id) ELSE c.l2,
                  l3 |-> IF layer = "L3" THEN Append(c.l3, h.id) ELSE c.l3,
                  total |-> c.total + n],
                 max_chars)

SplitContextLlm(hits) == SplitLoopLlm(hits, 1, EmptyCtx, MaxCharsLlm)

\* answer_llm2.split_context_by_layer, the loop from hits[i] on: a block whose
\* layer is none of L1, L2, L3 joins no bucket and still counts in total.
RECURSIVE SplitLoopLlm2(_, _, _, _)
SplitLoopLlm2(hits, i, c, max_chars) ==
  IF i > Len(hits) THEN c
  ELSE LET h == hits[i]
           n == BlockLenLlm2(h)
           layer == RawLayer(h)
       IN IF c.total + n > max_chars THEN c
          ELSE SplitLoopLlm2(hits, i + 1,
                 [l1 |-> IF layer = "L1" THEN Append(c.l1, h.id) ELSE c.l1,
                  l2 |-> IF layer = "L2" THEN Append(c.l2, h.id) ELSE c.l2,
                  l3 |-> IF layer = "L3" THEN Append(c.l3, h.id) ELSE c.l3,
                  total |-> c.total + n],
                 max_chars)

SplitContextLlm2(hits) == SplitLoopLlm2(hits, 1, EmptyCtx, MaxCharsLlm2)

\* "\n---\n".join(blocks) is the empty string exactly when there is no block:
\* every block holds at least its frame.  not (l1 or l2 or l3).
CtxEmpty(c) == c.l1 = <<>> /\ c.l2 = <<>> /\ c.l3 = <<>>

\* ----------------------------------------------------------- query expander
\* What the expansion call may do: raise; return content that is no JSON;
\* return JSON that is no list ("nonlist": an object, a number, null); return
\* a JSON list, whose items are strings ("s") or something else ("n").
\* The original query is the string "q".
AllStrings(items) == \A i \in 1..Len(items) : items[i] # "n"

\* The value expanded holds: a list of items, or (islist FALSE) a non-list.
OriginalOnly == [islist |-> TRUE, items |-> <<"q">>]

\* answer_llm.rewrite_queries.
RewriteQueriesLlm(out) ==
  IF out.kind = "list" /\ AllStrings(out.items)
  THEN [islist |-> TRUE, items |-> Take(out.items, ExpandCap)]
  ELSE OriginalOnly

\* answer_llm2.rewrite_queries: whatever json.loads returns is returned.
RewriteQueriesLlm2(out) ==
  IF out.kind \in {"raise", "nonjson"} THEN OriginalOnly
  ELSE IF out.kind = "nonlist" THEN [islist |-> FALSE, items |-> <<>>]
  ELSE [islist |-> TRUE, items |-> out.items]

\* pydantic's check of expanded_queries: List[str] when an AnswerResponse is
\* built.
IsListOfStr(e) == e.islist /\ AllStrings(e.items)

\* ----------------------------------------------------------- model reranker
\* What the rerank call may do: raise; return content that is no JSON; return
\* a JSON list of rows.  A row is
\*   "ok"    a dict with an integer id and a numeric score,
\*   "badid" a dict whose id int() rejects,
\*   "noscore" a dict without a score,
\*   "num"   a number in place of a dict.
\* The result of llm_rerank is None (some FALSE) or a list of (score, Hit),
\* held as records [key, hit].
NoneRanked == [some |-> FALSE, list |-> <<>>]

\* The loop over the rows of answer_llm.llm_rerank from rows[i] on; n is
\* len(items).  raised tells that a row made the loop raise.
RECURSIVE ScoreRowsLlm(_, _, _, _, _)
ScoreRowsLlm(rows, i, hits, n, acc) ==
  IF i > Len(rows) THEN [raised |-> FALSE, scored |-> acc]
  ELSE LET row == rows[i]
       IN IF row.kind \in {"num", "noscore"}
          THEN ScoreRowsLlm(rows, i + 1, hits, n, acc)
          ELSE IF row.kind = "badid" THEN [raised |-> TRUE, scored |-> acc]
          ELSE IF 0 <= row.id /\ row.id < n
               THEN ScoreRowsLlm(rows, i + 1, hits, n,
                      Append(acc, [key |-> row.score, hit |-> hits[row.id + 1]]))
               ELSE ScoreRowsLlm(rows, i + 1, hits, n, acc)

\* The same loop of answer_llm2.llm_rerank: `"id" in row` raises on a number.
RECURSIVE ScoreRowsLlm2(_, _, _, _, _)
ScoreRowsLlm2(rows, i, hits, n, acc) ==
  IF i > Len(rows) THEN [raised |-> FALSE, scored |-> acc]
  ELSE LET row == rows[i]
       IN IF row.kind = "noscore"
          THEN ScoreRowsLlm2(rows, i + 1, hits, n, acc)
          ELSE IF row.kind \in {"badid", "num"} THEN [raised |-> TRUE, scored |-> acc]
          ELSE IF 0 <= row.id /\ row.id < n
               THEN ScoreRowsLlm2(rows, i + 1, hits, n,
                      Append(acc, [key |-> row.score, hit |-> hits[row.id + 1]]))
               ELSE ScoreRowsLlm2(rows, i + 1, hits, n, acc)

\* answer_llm.llm_rerank after `if not hits`, given the model's output.
LlmRerankLlm(hits, out) ==
  IF out.kind # "list" THEN NoneRanked
  ELSE LET r == ScoreRowsLlm(out.rows, 1, hits, Min(Len(hits), RerankCapLlm), <<>>)
       IN IF r.raised THEN NoneRanked
          ELSE [some |-> TRUE, list |-> SortDesc(r.scored)]

\* answer_llm2.llm_rerank after `if not hits`, given the model's output.
LlmRerankLlm2(hits, out) ==
  IF out.kind # "list" THEN NoneRanked
  ELSE LET r == ScoreRowsLlm2(out.rows, 1, hits, Min(Len(hits), RerankCapLlm2), <<>>)
       IN IF r.raised THEN NoneRanked
          ELSE [some |-> TRUE, list |-> SortDesc(r.scored)]

\* `if reranked:` a non-empty list.
Truthy(r) == r.some /\ r.list # <<>>

\* ------------------------------------------------------- heuristic reranker
\* prior_boost_for_hit: min(boost, 0.35); payload.pboost is the sum of the
\* priors whose pattern matches the title.
PriorBoostForHit(p) == Min(p.pboost, PriorCap)

\* max(h.score or 0.0 for h in hits), hits not empty.
RECURSIVE MaxScore(_)
MaxScore(hits) ==
  IF Len(hits) = 1 THEN hits[1].score
  ELSE Max(Head(hits).score, MaxScore(Tail(hits)))

\* max((h.score or 0.0) for h in hits) or 1.0, in hundredths: negative when
\* every score is.
MaxVec(hits) == IF MaxScore(hits) = 0 THEN 100 ELSE MaxScore(hits)

\* combined = alpha*score/max_vec + beta*overlap + gamma*pboost as an exact
\* number, times 10000 * |max_vec| (in hundredths) so that it is an integer
\* and two hits of one pool compare as their combined scores do, also for a
\* negative max_vec.
Combined(h, max_vec) ==
  LET k == Alpha * 100 * h.score
             + max_vec * (Beta * h.payload.overlap + Gamma * PriorBoostForHit(h.payload))
  IN IF max_vec > 0 THEN k ELSE -k

\* What the float arithmetic reads: the hit's score, overlap and capped boost.
Operands(h) == <<h.score, h.payload.overlap, PriorBoostForHit(h.payload)>>

\* The code computes combined in floats.  Hits with the same operands get the
\* same float; hits whose exact combined scores differ get floats that differ
\* the same way (the scores are hundredths, the rounding error is below
\* 1e-15); hits with different operands and the same exact combined score get
\* floats that may be equal or differ in the last bits either way.  err[i]
\* ranks the float of hit i among the floats of the hits with its exact
\* combined score; it is 0 for a hit that shares that score with no hit of
\* other operands.
Roundings(hits) ==
  IF hits = <<>> THEN {<<>>}
  ELSE LET n == Len(hits)
           mv == MaxVec(hits)
           tied(i) == \E j \in 1..n : /\ Combined(hits[j], mv) = Combined(hits[i], mv)
                                      /\ Operands(hits[j]) # Operands(hits[i])
       IN { err \in [1..n -> 0..(n - 1)] :
              /\ \A i \in 1..n : ~tied(i) => err[i] = 0
              /\ \A i, j \in 1..n :
                   Operands(hits[i]) = Operands(hits[j]) => err[i] = err[j] }

\* The sort key of hit i: the float combined score, as its exact value and
\* the rank err[i] among equal exact values.
SortKey(hits, err, i) == Combined(hits[i], MaxVec(hits)) * Len(hits) + err[i]

\* A variant of HeuristicRerank that sorts the pool read from its end, so that
\* hits of equal combined score come out in reverse pool order.
HeuristicRerank_FromEnd(hits, err) ==
  IF hits = <<>> THEN <<>>
  ELSE LET n == Len(hits)
           scored == [i \in 1..n |->
                        [key |-> SortKey(hits, err, n + 1 - i), hit |-> hits[n + 1 - i]]]
           sorted == SortDesc(scored)
       IN [i \in 1..n |-> sorted[i].hit]

\* answer_llm.heuristic_rerank, err telling how the floats of exactly equal
\* combined scores compare.
HeuristicRerank(hits, err) ==
  IF hits = <<>> THEN <<>>
  ELSE LET scored == [i \in 1..Len(hits) |->
                        [key |-> SortKey(hits, err, i), hit |-> hits[i]]]
           sorted == SortDesc(scored)
       IN [i \in 1..Len(sorted) |-> sorted[i].hit]

\* --------------------------------------------------------- weighted blend
\* A variant of PerLayer that lists a layer's hits last first.
PerLayer_Reversed(hws, layer) ==
  LET of == SelectSeq(hws, LAMBDA x : DetectLayer(x.hit.payload) = layer)
  IN [i \in 1..Len(of) |-> of[Len(of) + 1 - i].hit]

\* The hits of one layer, in incoming order.
PerLayer(hws, layer) ==
  LET of == SelectSeq(hws, LAMBDA x : DetectLayer(x.hit.payload) = layer)
  IN [i \in 1..Len(of) |-> of[i].hit]

\* A variant of L3N that rounds its own weight instead of taking the remainder.
L3N_Rounded(total) == Max(0, RoundHalfEven(total * (100 - WeightL1 - WeightL2), 100))

\* The largest power of two that is at most n (n >= 1).
RECURSIVE Pow2Floor(_)
Pow2Floor(n) == IF n < 2 THEN 1 ELSE 2 * Pow2Floor(n \div 2)

\* int(round(total * w)) for the float w of LAYER_WEIGHTS nearest to
\* weight / 100 and an integer total >= 1.  The float product matters only
\* when total * weight / 100 ends in .5.  The float 0.15 lies below 3/20 by
\* 0.05 * 2^-53, too little to move such a product off the tie.  The float
\* 0.55 lies above 11/20 by 0.4 * 2^-53: the product n + 0.5 is rounded to the
\* next float above it, and then to n + 1, when 0.4 * total exceeds the power
\* of two at or below n (total = 110, 190, 230, ...).  Agrees with the float
\* computation for every total below 3,000,000.
RoundWeighted(total, weight) ==
  LET p == total * weight
      n == p \div 100
  IN IF p % 100 = 50 /\ weight = WeightL2 /\ 5 * Pow2Floor(n) < 2 * total
     THEN n + 1
     ELSE RoundHalfEven(p, 100)

\* Per-layer target counts of weighted_blend for total = max(1, top_k).
L1N(total) == Max(0, RoundWeighted(total, WeightL1))
L2N(total) == Max(0, RoundWeighted(total, WeightL2))
L3N(total) == Max(0, total - L1N(total) - L2N(total))

\* The fill loop: append the remaining hits one by one until total is reached.
RECURSIVE Fill(_, _, _)
Fill(blended, rest, total) ==
  IF Len(blended) >= total \/ rest = <<>> THEN blended
  ELSE Fill(Append(blended, Head(rest)), Tail(rest), total)

\* A variant of WeightedBlend without the fill loop.
WeightedBlend_NoBackfill(hws, top_k) ==
  IF hws = <<>> THEN <<>>
  ELSE LET total == Max(1, top_k)
           p1 == PerLayer(hws, "L1")
           p2 == PerLayer(hws, "L2")
           p3 == PerLayer(hws, "L3")
       IN Take(Take(p3, L3N(total)) \o Take(p2, L2N(total)) \o Take(p1, L1N(total)),
               total)

\* answer_llm.weighted_blend.
WeightedBlend(hws, top_k) ==
  IF hws = <<>> THEN <<>>
  ELSE LET total == Max(1, top_k)
           p1 == PerLayer(hws, "L1")
           p2 == PerLayer(hws, "L2")
           p3 == PerLayer(hws, "L3")
           blended == Take(p3, L3N(total)) \o Take(p2, L2N(total)) \o Take(p1, L1N(total))
           rest == Drop(p3, L3N(total)) \o Drop(p2, L2N(total)) \o Drop(p1, L1N(total))
       IN Take(Fill(blended, rest, total), total)

\* ------------------------------------------------------------------ inputs
\* Caller arguments: the empty query, a blank one, a real one.
Queries == {"", "  ", "q"}
\* (query or "").strip()
SanitizeQuery(q) == IF q = "  " THEN "" ELSE q
TopKs == -1..MaxTopK
\* Thresholds in hundredths: below 0, 0, 1, above 1.
Thresholds == {-10, 0, 100, 110}

\* Points of the single-collection index, as (score, payload) with the score
\* in hundredths: a section (L2) at 1.0 and at 0.7, a clause that repeats the
\* query's words (L3) at 0.7, a chapter heading (L1) whose text is as long as
\* the whole budget at 1.0, and two sections whose cosine score is negative
\* (-0.2 and -0.5).
PointsLlm ==
  { <<100, [EmptyPayload EXCEPT !.section_number = TRUE, !.meta_len = 30,
                                !.text_len = 100]>>,
    <<70, [EmptyPayload EXCEPT !.section_number = TRUE, !.meta_len = 30,
                               !.text_len = 100]>>,
    <<70, [EmptyPayload EXCEPT !.section_number = TRUE, !.clause = TRUE,
                               !.meta_len = 30, !.text_len = 100, !.overlap = 100]>>,
    <<100, [EmptyPayload EXCEPT !.text_len = MaxCharsLlm]>>,
    <<-20, [EmptyPayload EXCEPT !.section_number = TRUE, !.meta_len = 30,
                                !.text_len = 100]>>,
    <<-50, [EmptyPayload EXCEPT !.section_number = TRUE, !.meta_len = 30,
                                !.text_len = 100]>> }

\* Points of the per-tier collections: no tier field at 1.0, a tier field in
\* lower case and the query's words at 0.7, a text as long as the whole budget
\* at 1.0.
PointsLlm2 ==
  { <<100, [EmptyPayload EXCEPT !.meta_len = 30, !.text_len = 100]>>,
    <<70, [EmptyPayload EXCEPT !.layer = "l3", !.meta_len = 30, !.text_len = 100,
                               !.overlap = 100]>>,
    <<100, [EmptyPayload EXCEPT !.text_len = MaxCharsLlm2]>> }

\* What one search call returns: up to n points in descending score order.
Points(P, n) ==
  { s \in SeqsUpTo(P, n) : \A i \in 1..(Len(s) - 1) : s[i][1] >= s[i + 1][1] }

\* Outputs of the expansion model (see the query expander).
ExpandLens == {0, ExpandCap, MaxExpand}
RewriteOutputs ==
  { [kind |-> k, items |-> <<>>] : k \in {"raise", "nonjson", "nonlist"} }
  \cup { [kind |-> "list", items |-> [i \in 1..n |-> "s"]] : n \in ExpandLens }
  \cup { [kind |-> "list", items |-> <<"s", "n">>] }

\* How a call's outcome is logged: a list holding a non-string is "badlist".
ExpandRes(out) ==
  IF out.kind = "list" /\ ~AllStrings(out.items) THEN "badlist" ELSE out.kind

\* Outputs of the reranking model for n submitted candidates: ids from -1 to
\* n (both out of range) and two model scores.
RerankRows(n) ==
  { [kind |-> "ok", id |-> i, score |-> sc] : i \in -1..n, sc \in {20, 90} }
  \cup { [kind |-> k, id |-> 0, score |-> 0] : k \in {"num", "badid", "noscore"} }

RerankOutputs(n) ==
  { [kind |-> k, rows |-> <<>>] : k \in {"raise", "nonjson"} }
  \cup { [kind |-> "list", rows |-> r] : r \in SeqsUpTo(RerankRows(n), MaxRows) }

\* Texts the generator returns (it is told to say Canned when it finds nothing).
GenTexts == {"answer", Canned}
\* The verdict the validator returns.
ValTexts == {"verified"}
ValidatorError == "(validator error)"
\* validation=None
NoValidation == "None"

\* ------------------------------------------------------------------- state
VARIABLES
  variant,      \* which module's answer_query runs: "llm" or "llm2"
  query,        \* the query argument
  top_k,        \* the top_k argument
  threshold,    \* the threshold argument, in hundredths
  do_validate,  \* do_validate (answer_llm) / validate (answer_llm2)
  pc,           \* the statement answer_query has reached
  expanded,     \* the value rewrite_queries returned
  wide_hits,    \* the hits of the search (for answer_llm2: results of multi_search)
  col,          \* answer_llm2.multi_search: the collections queried so far
  path,         \* which ordering produced top_hits
  top_hits,     \* final_hits (answer_llm) / top_hits (answer_llm2)
  ctx,          \* the three buckets split_context_by_layer returned
  answer_text,  \* the generated answer
  calls,        \* the external calls made so far, each with its outcome
  outcome,      \* "running", "returned" (an AnswerResponse) or "raised"
  error,        \* the exception answer_query raised
  response,     \* the AnswerResponse returned
  col_results,  \* answer_llm2.multi_search: what the search of each collection did
  ordered_hits, \* the candidates in the order the filter reads them
  fn,           \* a function called on its own: its name ("none" inside answer_query)
  fn_in,        \* the arguments of that call
  fn_out,       \* the values it returned, one per call
  credit_balance, \* credit of each committed credit_balance row of the user, in order of creation
  usage,        \* credit_reduct of the committed credit_useed rows of the user
  initial_credits, \* the credit of the user's balance row before any request (NoRow: no row)
  sessions,     \* the /assistant/query-v2 requests of the user, each with its db session
  is_serverless \* database.is_serverless: requests are served by separate instances

vars == <<variant, query, top_k, threshold, do_validate, pc, expanded, wide_hits,
          col, path, top_hits, ctx, answer_text, calls, outcome, error, response,
          col_results, ordered_hits, fn, fn_in, fn_out,
          credit_balance, usage, initial_credits, sessions, is_serverless>>

\* The state of a function called on its own.
unit == <<fn, fn_in, fn_out>>

\* The credit tables and the requests that use them.
ledger == <<credit_balance, usage, initial_credits, sessions, is_serverless>>

\* The requests of the user.
Requests == 1..MaxRequests

\* A request that has not arrived: pc is the statement of its handler it has
\* reached; guard is `canonical_user_id and task_name.lower() == "general"`,
\* the condition under which run_query_v2 checks and charges; caller is the
\* function whose call of ensure_credit_balance is under way ("none": no
\* call); row and balance are the CreditBalanceDB object the request's
\* session has loaded and not yet written back or compared (which row, and
\* its credit; 0 and -1: none); credit_cost is the local of that name
\* (-1: None); status is the HTTP status the request ended with (0: still
\* running).
NewSession ==
  [pc |-> "start", guard |-> FALSE, caller |-> "none", row |-> 0, balance |-> -1,
   credit_cost |-> -1, status |-> 0]

\* No request of the user is under way and the user has no credit row.
LedgerAtRest ==
  /\ credit_balance = <<>> /\ usage = <<>> /\ initial_credits = NoRow
  /\ sessions = [r \in Requests |-> NewSession]
  /\ is_serverless = FALSE

args == <<variant, query, top_k, threshold, do_validate>>

NoError == "none"
NoResponse ==
  [query |-> "", answer |-> "", expanded_queries |-> <<>>, sources |-> <<>>,
   validation |-> NoValidation]

Init ==
  /\ variant \in Variants
  /\ query \in Queries
  /\ top_k \in TopKs
  /\ threshold \in Thresholds
  /\ do_validate \in BOOLEAN
  /\ pc = "start"
  /\ LedgerAtRest
  /\ expanded = OriginalOnly
  /\ wide_hits = <<>>
  /\ col = 0
  /\ path = "none"
  /\ top_hits = <<>>
  /\ ctx = EmptyCtx
  /\ answer_text = ""
  /\ calls = <<>>
  /\ outcome = "running"
  /\ error = NoError
  /\ response = NoResponse
  /\ col_results = <<>>
  /\ ordered_hits = <<>>
  /\ fn = "none"
  /\ fn_in = <<>>
  /\ fn_out = <<>>

Call(op, res) == [op |-> op, res |-> res]

\* raise <kind>: answer_query ends without a response.
Raise(kind) ==
  /\ outcome' = "raised"
  /\ error' = kind
  /\ pc' = "done"
  /\ response' = response

\* Source.from_hit (answer_llm): the layer is detect_layer's.
SourceFromHit(h) ==
  [id |-> h.id, score |-> h.score, layer |-> DetectLayer(h.payload),
   collection |-> h.collection]

\* _hit_to_source (answer_llm2): the layer is _resolve_layer's.
HitToSource(h) ==
  [id |-> h.id, score |-> h.score, layer |-> ResolveLayer(h.payload, h.collection),
   collection |-> h.collection]

HitsToSources(hits) ==
  [i \in 1..Len(hits) |->
     IF variant = "llm" THEN SourceFromHit(hits[i]) ELSE HitToSource(hits[i])]

\* return AnswerResponse(...): pydantic rejects expanded_queries that is not a
\* list of strings with a ValidationError, and answer_query raises it.
Return(ans, hits, val) ==
  IF IsListOfStr(expanded)
  THEN /\ outcome' = "returned"
       /\ error' = error
       /\ pc' = "done"
       /\ response' = [query |-> SanitizeQuery(query), answer |-> ans,
                       expanded_queries |-> expanded.items,
                       sources |-> HitsToSources(hits), validation |-> val]
  ELSE Raise("ValidationError")

\* A variant of ArgsRejected that checks only the lower end of the threshold.
ArgsRejected_NoUpperEnd(q, k, thr) ==
  \/ SanitizeQuery(q) = ""
  \/ k <= 0
  \/ ~(0 <= thr)

\* The three argument checks of answer_query, each raising a ValueError.
ArgsRejected(q, k, thr) ==
  \/ SanitizeQuery(q) = ""
  \/ k <= 0
  \/ ~(0 <= thr /\ thr <= 100)

\* answer_query, the argument checks.
CheckArgs ==
  /\ pc = "start"
  /\ IF ArgsRejected(query, top_k, threshold)
     THEN Raise("ValueError")
     ELSE /\ pc' = "expand"
          /\ UNCHANGED <<outcome, error, response>>
  /\ UNCHANGED <<args, unit, ledger, col_results, ordered_hits,
                 expanded, wide_hits, col, path, top_hits, ctx, answer_text, calls>>

\* expanded = rewrite_queries(normalized_query)
Expand ==
  /\ pc = "expand"
  /\ \E out \in RewriteOutputs :
       /\ expanded' = IF variant = "llm" THEN RewriteQueriesLlm(out)
                      ELSE RewriteQueriesLlm2(out)
       /\ calls' = Append(calls, Call("expand", ExpandRes(out)))
  /\ pc' = "embed"
  /\ UNCHANGED <<args, unit, ledger, col_results, ordered_hits,
                 wide_hits, col, path, top_hits, ctx, answer_text, outcome,
                 error, response>>

\* A variant of EmbedFailure that lets the client's exception pass.
EmbedFailure_Unwrapped == "APIError"

\* except Exception as exc: raise RuntimeError("Failed to create embedding ...")
EmbedFailure == "RuntimeError"

\* except Exception as exc: raise RuntimeError("Vector search against Qdrant failed.")
SearchFailure == "RuntimeError"

\* A variant of Embed that calls the embedding model a second time when the
\* first call fails.
Embed_RetryOnce ==
  /\ pc = "embed"
  /\ \E ok \in BOOLEAN :
       /\ calls' = Append(calls, Call("embed", IF ok THEN "ok" ELSE "raise"))
       /\ IF ok THEN /\ pc' = "search"
                     /\ UNCHANGED <<outcome, error, response>>
          ELSE IF \E i \in 1..Len(calls) : calls[i].op = "embed"
               THEN Raise(EmbedFailure)
               ELSE UNCHANGED <<pc, outcome, error, response>>
  /\ UNCHANGED <<args, unit, ledger, col_results, ordered_hits,
                 expanded, wide_hits, col, path, top_hits, ctx, answer_text>>

\* query_vector = embed(normalized_query), wrapped into a RuntimeError.
Embed ==
  /\ pc = "embed"
  /\ \E ok \in BOOLEAN :
       /\ calls' = Append(calls, Call("embed", IF ok THEN "ok" ELSE "raise"))
       /\ IF ok THEN /\ pc' = "search"
                     /\ UNCHANGED <<outcome, error, response>>
          ELSE Raise(EmbedFailure)
  /\ UNCHANGED <<args, unit, ledger, col_results, ordered_hits,
                 expanded, wide_hits, col, path, top_hits, ctx, answer_text>>

\* The points of one search call as hits of collection c, numbered from n + 1.
AsHits(points, c, n) ==
  [i \in 1..Len(points) |-> MkHit(n + i, points[i][1], c, points[i][2])]

\* answer_llm: wide_hits = qdrant_search(...), wrapped into a RuntimeError.
QdrantSearch ==
  /\ pc = "search"
  /\ variant = "llm"
  /\ \/ /\ calls' = Append(calls, Call("search", "raise"))
        /\ Raise(SearchFailure)
        /\ UNCHANGED wide_hits
     \/ \E pts \in Points(PointsLlm, MaxHits) :
          /\ calls' = Append(calls, Call("search", "ok"))
          /\ wide_hits' = AsHits(pts, QDRANT_COLLECTION, 0)
          /\ pc' = "rerank"
          /\ UNCHANGED <<outcome, error, response>>
  /\ UNCHANGED <<args, unit, ledger, col_results, ordered_hits,
                 expanded, col, path, top_hits, ctx, answer_text>>

\* A variant of SortByScore that leaves the results in the order in which the
\* collections returned them.
SortByScore_CollectionOrder(hits) == hits

\* results.sort(key=lambda x: x.score, reverse=True)
SortByScore(hits) ==
  LET keyed == [i \in 1..Len(hits) |-> [key |-> hits[i].score, hit |-> hits[i]]]
      sorted == SortDesc(keyed)
  IN [i \in 1..Len(sorted) |-> sorted[i].hit]

\* A variant of MultiSearchStep in which a failing collection discards the
\* hits gathered so far.
MultiSearchStep_CancelOnFailure ==
  /\ pc = "search"
  /\ variant = "llm2"
  /\ col < Len(COLLECTIONS)
  /\ LET c == COLLECTIONS[col + 1]
         last == (col + 1 = Len(COLLECTIONS))
     IN /\ \/ /\ calls' = Append(calls, Call(c, "raise"))
              /\ col_results' = Append(col_results, [ok |-> FALSE, hits |-> <<>>])
              /\ wide_hits' = <<>>
           \/ \E pts \in Points(PointsLlm2, MaxHits - Len(wide_hits)) :
                /\ calls' = Append(calls, Call(c, "ok"))
                /\ col_results' =
                     Append(col_results,
                            [ok |-> TRUE, hits |-> AsHits(pts, c, Len(wide_hits))])
                /\ wide_hits' =
                     LET results == wide_hits \o AsHits(pts, c, Len(wide_hits))
                     IN IF last THEN SortByScore(results) ELSE results
        /\ col' = col + 1
        /\ pc' = IF last THEN "rerank" ELSE "search"
  /\ UNCHANGED <<args, unit, ledger, ordered_hits,
                 expanded, path, top_hits, ctx, answer_text, outcome, error,
                 response>>

\* answer_llm2.multi_search, one turn of its loop over COLLECTIONS: the search
\* of a collection raises (logged, skipped) or its hits join results; after
\* the last collection results is sorted and returned.
MultiSearchStep ==
  /\ pc = "search"
  /\ variant = "llm2"
  /\ col < Len(COLLECTIONS)
  /\ LET c == COLLECTIONS[col + 1]
         last == (col + 1 = Len(COLLECTIONS))
     IN /\ \/ /\ calls' = Append(calls, Call(c, "raise"))
              /\ col_results' = Append(col_results, [ok |-> FALSE, hits |-> <<>>])
              /\ wide_hits' = IF last THEN SortByScore(wide_hits) ELSE wide_hits
           \/ \E pts \in Points(PointsLlm2, MaxHits - Len(wide_hits)) :
                /\ calls' = Append(calls, Call(c, "ok"))
                /\ col_results' =
                     Append(col_results,
                            [ok |-> TRUE, hits |-> AsHits(pts, c, Len(wide_hits))])
                /\ wide_hits' =
                     LET results == wide_hits \o AsHits(pts, c, Len(wide_hits))
                     IN IF last THEN SortByScore(results) ELSE results
        /\ col' = col + 1
        /\ pc' = IF last THEN "rerank" ELSE "search"
  /\ UNCHANGED <<args, unit, ledger, ordered_hits,
                 expanded, path, top_hits, ctx, answer_text, outcome, error,
                 response>>

\* A variant of FilterScored that compares the model's score with the
\* threshold.
FilterScored_ByModelScore(list, thr) == SelectSeq(list, LAMBDA x : x.key >= thr)

\* [(score, hit) for score, hit in reranked_llm if (hit.score or 0.0) >= threshold]
FilterScored(list, thr) == SelectSeq(list, LAMBDA x : x.hit.score >= thr)

\* [hit for hit in hits if (hit.score or 0.0) >= threshold]
FilterHits(hits, thr) == SelectSeq(hits, LAMBDA h : h.score >= thr)

\* [hit for _, hit in reranked]
HitsOf(list) == [i \in 1..Len(list) |-> list[i].hit]

\* answer_llm.answer_query: final_hits from the two rerank branches.
FinalHitsLlm(reranked, hits, k, thr, err) ==
  IF Truthy(reranked)
  THEN LET filtered == FilterScored(reranked.list, thr)
           base == IF filtered # <<>> THEN filtered ELSE reranked.list
       IN WeightedBlend(base, k)
  ELSE LET heuristic_hits == HeuristicRerank(hits, err)
           filtered == FilterHits(heuristic_hits, thr)
       IN IF filtered # <<>> THEN Take(filtered, k) ELSE Take(heuristic_hits, k)

\* answer_llm2.answer_query: ordered_hits.
OrderedHitsLlm2(reranked, hits) ==
  IF Truthy(reranked) THEN HitsOf(reranked.list) ELSE hits

\* answer_llm.answer_query: the hits of reranked_llm, or heuristic_hits.
OrderedHitsLlm(reranked, hits, err) ==
  IF Truthy(reranked) THEN HitsOf(reranked.list) ELSE HeuristicRerank(hits, err)

\* A variant of TopHitsLlm2 that forgets [:top_k] when the filter keeps
\* nothing.
TopHitsLlm2_Uncapped(ordered, k, thr) ==
  LET filtered_hits == FilterHits(ordered, thr)
  IN IF filtered_hits # <<>> THEN Take(filtered_hits, k) ELSE ordered

\* A variant of TopHitsLlm2 that keeps the filter's result even when empty.
TopHitsLlm2_NoFallback(ordered, k, thr) == Take(FilterHits(ordered, thr), k)

\* answer_llm2.answer_query: top_hits.
TopHitsLlm2(ordered, k, thr) ==
  LET filtered_hits == FilterHits(ordered, thr)
  IN IF filtered_hits # <<>> THEN Take(filtered_hits, k) ELSE Take(ordered, k)

\* What answer_query does with the value llm_rerank returned, err telling how
\* the floats of heuristic_rerank compare.
Ranked(reranked, err) ==
  /\ top_hits' = IF variant = "llm"
                 THEN FinalHitsLlm(reranked, wide_hits, top_k, threshold, err)
                 ELSE TopHitsLlm2(OrderedHitsLlm2(reranked, wide_hits), top_k, threshold)
  /\ ordered_hits' = IF variant = "llm" THEN OrderedHitsLlm(reranked, wide_hits, err)
                     ELSE OrderedHitsLlm2(reranked, wide_hits)
  /\ path' = IF Truthy(reranked) THEN "model"
             ELSE IF variant = "llm" THEN "heuristic" ELSE "unreranked"
  /\ pc' = "generate"

\* llm_rerank and the threshold filter: no model call for an empty hit list.
Rerank ==
  /\ pc = "rerank"
  /\ IF wide_hits = <<>>
     THEN /\ Ranked(NoneRanked, <<>>)
          /\ UNCHANGED calls
     ELSE \E out \in RerankOutputs(Len(wide_hits)), err \in Roundings(wide_hits) :
            /\ calls' = Append(calls, Call("rerank", out.kind))
            /\ Ranked(IF variant = "llm" THEN LlmRerankLlm(wide_hits, out)
                      ELSE LlmRerankLlm2(wide_hits, out), err)
  /\ UNCHANGED <<args, unit, ledger, col_results,
                 expanded, wide_hits, col, ctx, answer_text, outcome, error,
                 response>>

\* split_context_by_layer of the running variant.
SplitContext(hits) ==
  IF variant = "llm" THEN SplitContextLlm(hits) ELSE SplitContextLlm2(hits)

\* len(block) and max_chars of the running variant.
BlockLen(h) == IF variant = "llm" THEN BlockLenLlm(h) ELSE BlockLenLlm2(h)
MaxChars == IF variant = "llm" THEN MaxCharsLlm ELSE MaxCharsLlm2

\* len("\n---\n".join(blocks)) for the bucket holding the blocks of the hits
\* ids[from..], hits being the list split (the id of a hit is its position).
RECURSIVE JoinedLen(_, _, _)
JoinedLen(ids, from, hits) ==
  IF from > Len(ids) THEN 0
  ELSE BlockLen(hits[ids[from]])
         + (IF from < Len(ids) THEN JoinLen ELSE 0)
         + JoinedLen(ids, from + 1, hits)

\* answer_llm: the two returns of the canned answer, without any model call:
\* no final hit (the sources are wide_hits[:top_k]) or three empty buckets.
NoContext ==
  /\ pc = "generate"
  /\ variant = "llm"
  /\ \/ /\ top_hits = <<>>
        /\ ctx' = ctx
        /\ Return(Canned, Take(wide_hits, top_k), NoValidation)
     \/ /\ top_hits # <<>>
        /\ CtxEmpty(SplitContext(top_hits))
        /\ ctx' = SplitContext(top_hits)
        /\ Return(Canned, top_hits, NoValidation)
  /\ UNCHANGED <<args, unit, ledger, col_results, ordered_hits,
                 expanded, wide_hits, col, path, top_hits, answer_text, calls>>

\* The exception answer_query raises when generate_answer raises: answer_llm
\* lets the client's exception pass, answer_llm2 wraps it.
GenerateError == IF variant = "llm" THEN "APIError" ELSE "RuntimeError"

\* A variant of ValidatorRuns that forgets `and top_hits`.
ValidatorRuns_IgnoresHits(validate, hits) == validate

\* answer_llm: `if do_validate:`; answer_llm2: `if validate and top_hits:`.
ValidatorRuns(validate, hits) ==
  IF variant = "llm" THEN validate ELSE validate /\ hits # <<>>

\* generate_answer on the buckets; then the response, unless the validator
\* is to run.
Generate ==
  /\ pc = "generate"
  /\ top_hits # <<>>
  /\ variant = "llm" => ~CtxEmpty(SplitContext(top_hits))
  /\ ctx' = SplitContext(top_hits)
  /\ \/ /\ calls' = Append(calls, Call("generate", "raise"))
        /\ Raise(GenerateError)
        /\ UNCHANGED answer_text
     \/ \E text \in GenTexts :
          /\ calls' = Append(calls, Call("generate", "ok"))
          /\ answer_text' = text
          /\ IF ValidatorRuns(do_validate, top_hits)
             THEN /\ pc' = "validate"
                  /\ UNCHANGED <<outcome, error, response>>
             ELSE Return(text, top_hits, NoValidation)
  /\ UNCHANGED <<args, unit, ledger, col_results, ordered_hits,
                 expanded, wide_hits, col, path, top_hits>>

\* answer_llm2: generate_answer_fallback when top_hits is empty; its
\* exception is not wrapped.
GenerateFallback ==
  /\ pc = "generate"
  /\ variant = "llm2"
  /\ top_hits = <<>>
  /\ ctx' = EmptyCtx
  /\ \/ /\ calls' = Append(calls, Call("generate_fallback", "raise"))
        /\ Raise("APIError")
        /\ UNCHANGED answer_text
     \/ \E text \in GenTexts :
          /\ calls' = Append(calls, Call("generate_fallback", "ok"))
          /\ answer_text' = text
          /\ IF ValidatorRuns(do_validate, top_hits)
             THEN /\ pc' = "validate"
                  /\ UNCHANGED <<outcome, error, response>>
             ELSE Return(text, top_hits, NoValidation)
  /\ UNCHANGED <<args, unit, ledger, col_results, ordered_hits,
                 expanded, wide_hits, col, path, top_hits>>

\* validate_citations: its own try/except turns a failure of the call into
\* the string "(validator error: ...)".
ValidateCitationsResult(out) == IF out = "raise" THEN ValidatorError ELSE out

\* validation = validate_citations(...), then the response.
Validate ==
  /\ pc = "validate"
  /\ \E out \in ValTexts \cup {"raise"} :
       /\ calls' = Append(calls, Call("validate", IF out = "raise" THEN "raise" ELSE "ok"))
       /\ Return(answer_text, top_hits, ValidateCitationsResult(out))
  /\ UNCHANGED <<args, unit, ledger, col_results, ordered_hits,
                 expanded, wide_hits, col, path, top_hits, ctx, answer_text>>

Next ==
  \/ CheckArgs
  \/ Expand
  \/ Embed
  \/ QdrantSearch
  \/ MultiSearchStep
  \/ Rerank
  \/ NoContext
  \/ Generate
  \/ GenerateFallback
  \/ Validate

Spec == Init /\ [][Next]_vars

\* ------------------------------------------- functions called on their own
\* answer_query is not running: its variables stay as they are before a call.
AtRest ==
  /\ query = "q" /\ top_k = 1 /\ threshold = 0 /\ do_validate = FALSE
  /\ pc = "start"
  /\ expanded = OriginalOnly
  /\ wide_hits = <<>> /\ col = 0 /\ col_results = <<>>
  /\ path = "none" /\ ordered_hits = <<>> /\ top_hits = <<>>
  /\ ctx = EmptyCtx /\ answer_text = "" /\ calls = <<>>
  /\ outcome = "running" /\ error = NoError /\ response = NoResponse

pipeline == <<variant, query, top_k, threshold, do_validate, pc, expanded, wide_hits,
              col, path, top_hits, ctx, answer_text, calls, outcome, error, response,
              col_results, ordered_hits>>

\* A payload whose explicit tier field is l.
LayerPayload(l) == [EmptyPayload EXCEPT !.layer = l]

\* hits_with_scores of weighted_blend: (score, Hit) pairs in descending order
\* of the model's score, the hits distinct, every mix of the three layers.
BlendInputs ==
  { [i \in 1..Len(ls) |->
       [key |-> 100 - i,
        hit |-> MkHit(i, 100 - 10 * i, QDRANT_COLLECTION, LayerPayload(ls[i]))]]
    : ls \in SeqsUpTo(Layers, MaxBlendHits) }

\* final_hits = weighted_blend(base, top_k)
CallWeightedBlend ==
  /\ fn = "weighted_blend"
  /\ Len(fn_out) < MaxCalls
  /\ fn_out' = Append(fn_out, WeightedBlend(fn_in.hits_with_scores, fn_in.top_k))
  /\ UNCHANGED <<pipeline, ledger, fn, fn_in>>

\* Payloads of the hits handed to split_context_by_layer on its own: a short
\* section, a short clause-level chunk, one whose block is half the budget,
\* and one whose text alone is the budget.  In answer_llm2 the clause-level
\* chunk carries its tier in lower case.
SplitPayloads ==
  IF variant = "llm"
  THEN { [EmptyPayload EXCEPT !.section_number = TRUE, !.meta_len = 30, !.text_len = 100],
         [EmptyPayload EXCEPT !.clause = TRUE, !.meta_len = 30, !.text_len = 100],
         [EmptyPayload EXCEPT !.section_number = TRUE,
                              !.text_len = (MaxCharsLlm \div 2) - BlockFrame],
         [EmptyPayload EXCEPT !.text_len = MaxCharsLlm] }
  ELSE { [EmptyPayload EXCEPT !.meta_len = 30, !.text_len = 100],
         [EmptyPayload EXCEPT !.layer = "l3", !.meta_len = 30, !.text_len = 100],
         [EmptyPayload EXCEPT
            !.text_len = (MaxCharsLlm2 \div 2) - BlockFrame - MetaFrameLlm2],
         [EmptyPayload EXCEPT !.text_len = MaxCharsLlm2] }

\* The lists of hits handed to split_context_by_layer; the id of a hit is its
\* position in the list.
SplitInputs ==
  { [i \in 1..Len(ps) |->
       MkHit(i, 100 - 10 * i,
             IF variant = "llm" THEN QDRANT_COLLECTION ELSE COLLECTIONS[2], ps[i])]
    : ps \in SeqsUpTo(SplitPayloads, MaxSplitHits) }

\* l1_texts, l2_texts, l3_texts = split_context_by_layer(hits)
CallSplitContext ==
  /\ fn = "split_context_by_layer"
  /\ Len(fn_out) < MaxCalls
  /\ fn_out' = Append(fn_out, SplitContext(fn_in.hits))
  /\ UNCHANGED <<pipeline, ledger, fn, fn_in>>

SplitInit ==
  /\ variant \in Variants
  /\ fn = "split_context_by_layer"
  /\ fn_in \in { [hits |-> hs] : hs \in SplitInputs }

\* Payloads handed to the layer classifiers on their own: every value of the
\* layer field, some of level and chunk_level, every mix of the structural
\* fields.
ClassifyPayloads ==
  { [EmptyPayload EXCEPT !.layer = t[1], !.level = t[2], !.chunk_level = t[3],
                         !.section_number = b[1], !.section_number_norm = b[2],
                         !.clause = b[3], !.sub_section = b[4], !.text_paren = b[5]]
    : t \in TierVals \X {"absent", "L1", "l3", "num"} \X {"absent", "L2", "X"},
      b \in BOOLEAN \X BOOLEAN \X BOOLEAN \X BOOLEAN \X BOOLEAN }

\* layer=detect_layer(payload), as Source.from_hit and the context builder of
\* answer_llm call it.
CallDetectLayer ==
  /\ fn = "detect_layer"
  /\ Len(fn_out) < MaxCalls
  /\ fn_out' = Append(fn_out, DetectLayer(fn_in.payload))
  /\ UNCHANGED <<pipeline, ledger, fn, fn_in>>

\* layer=_resolve_layer(payload, hit.collection), as _hit_to_source calls it.
CallResolveLayer ==
  /\ fn = "_resolve_layer"
  /\ Len(fn_out) < MaxCalls
  /\ fn_out' = Append(fn_out, ResolveLayer(fn_in.payload, fn_in.collection))
  /\ UNCHANGED <<pipeline, ledger, fn, fn_in>>

\* The hits of answer_llm come from QDRANT_COLLECTION, those of answer_llm2
\* from one of COLLECTIONS.
ClassifyInit ==
  \/ /\ variant = "llm"
     /\ fn = "detect_layer"
     /\ fn_in \in { [payload |-> p, collection |-> QDRANT_COLLECTION] :
                     p \in ClassifyPayloads }
  \/ /\ variant = "llm2"
     /\ fn = "_resolve_layer"
     /\ fn_in \in { [payload |-> p, collection |-> c] :
                     p \in ClassifyPayloads, c \in Range(COLLECTIONS) }

BlendInit ==
  /\ variant = "llm"
  /\ fn = "weighted_blend"
  /\ fn_in \in { [hits_with_scores |-> hws, top_k |-> k] :
                  hws \in BlendInputs, k \in 1..MaxBlendTopK \cup {LargeTopK} }

\* llm_rerank of the running variant, from its first statement on.
RerankCap == IF variant = "llm" THEN RerankCapLlm ELSE RerankCapLlm2
LlmRerank(hits, out) ==
  IF hits = <<>> THEN NoneRanked
  ELSE IF variant = "llm" THEN LlmRerankLlm(hits, out) ELSE LlmRerankLlm2(hits, out)

\* The pools handed to llm_rerank on its own: one hit, two hits, and one hit
\* more than the model is shown.  The id of a hit is its position.
RerankPools ==
  { [i \in 1..n |->
       MkHit(i, 100 - i, IF variant = "llm" THEN QDRANT_COLLECTION ELSE COLLECTIONS[2],
             EmptyPayload)]
    : n \in {1, 2, RerankCap + 1} }

\* The rows the model may answer with: ids below, at and past the ends of the
\* items it was shown, and the three malformed rows.
UnitRerankRows ==
  { [kind |-> "ok", id |-> i, score |-> sc]
    : i \in {-1, 0, 1, RerankCap - 1, RerankCap}, sc \in {20, 90} }
  \cup { [kind |-> k, id |-> 0, score |-> 0] : k \in {"num", "badid", "noscore"} }

UnitRerankOutputs ==
  { [kind |-> k, rows |-> <<>>] : k \in {"raise", "nonjson"} }
  \cup { [kind |-> "list", rows |-> r] : r \in SeqsUpTo(UnitRerankRows, MaxRows) }

\* reranked = llm_rerank(query, wide_hits)
CallLlmRerank ==
  /\ fn = "llm_rerank"
  /\ Len(fn_out) < MaxCalls
  /\ fn_out' = Append(fn_out, LlmRerank(fn_in.hits, fn_in.out))
  /\ UNCHANGED <<pipeline, ledger, fn, fn_in>>

RerankInit ==
  /\ variant \in Variants
  /\ fn = "llm_rerank"
  /\ fn_in \in { [hits |-> hs, out |-> o] : hs \in RerankPools, o \in UnitRerankOutputs }

\* The pools handed to heuristic_rerank on its own: every mix of vector score
\* (two negative ones, none, and 0.32 / 0.57 / 0.65, of which the first two
\* tie under the third when only the first has the query's words), token
\* overlap (none, full) and act prior (none, two priors adding up to more than
\* the cap).  The id of a hit is its position.
HeuristicScores == {-50, -20, 0, 32, 57, 65}

HeuristicPayloads ==
  { [EmptyPayload EXCEPT !.overlap = o, !.pboost = b] : o \in {0, 100}, b \in {0, 38} }

HeuristicPools ==
  { [i \in 1..Len(ps) |-> MkHit(i, ps[i][1], QDRANT_COLLECTION, ps[i][2])]
    : ps \in SeqsUpTo(HeuristicScores \X HeuristicPayloads, MaxHeurHits) }

\* ordered = heuristic_rerank(query, wide_hits)
CallHeuristicRerank ==
  /\ fn = "heuristic_rerank"
  /\ Len(fn_out) < MaxCalls
  /\ fn_out' = Append(fn_out, HeuristicRerank(fn_in.hits, fn_in.err))
  /\ UNCHANGED <<pipeline, ledger, fn, fn_in>>

HeuristicInit ==
  /\ variant = "llm"
  /\ fn = "heuristic_rerank"
  /\ \E hs \in HeuristicPools : fn_in \in { [hits |-> hs, err |-> e] : e \in Roundings(hs) }

FnInit ==
  /\ AtRest
  /\ LedgerAtRest
  /\ fn_out = <<>>
  /\ \/ BlendInit
     \/ SplitInit
     \/ ClassifyInit
     \/ RerankInit
     \/ HeuristicInit

FnNext ==
  \/ CallWeightedBlend
  \/ CallSplitContext
  \/ CallDetectLayer
  \/ CallResolveLayer
  \/ CallLlmRerank
  \/ CallHeuristicRerank

SpecFn == FnInit /\ [][FnNext]_vars


\* ------------------------------------------------- credits of /query-v2
\* The balances of a user who has a balance row: nothing, the cost of one
\* task, of two.
Balances == {0, CreditCost, 2 * CreditCost}

\* request.task_name of a request: absent, the general task in lower case and
\* capitalised, another task.
TaskNames == {"", "general", "General", "Summary"}

\* task_name = request.task_name or "General"
TaskName(t) == IF t = "" THEN "General" ELSE t

\* str.lower() on the task names.
Lower(t) ==
  CASE t = "General" -> "general"
    [] t = "Summary" -> "summary"
    [] OTHER -> t

\* canonical_user_id and (task_name.lower() == "general"): whether the
\* request is checked and charged; known is whether _resolve_user_id found
\* the user.
Guard(known, t) == known /\ Lower(TaskName(t)) = "general"

\* What answer_llm2.answer_query does for run_query_v2: returns a result or
\* raises ValueError, RuntimeError or another exception.
PipelineOutcomes == {"result", "ValueError", "RuntimeError", "Exception"}

\* The HTTPException run_query_v2 raises for an exception of the pipeline.
PipelineStatus(out) ==
  CASE out = "ValueError" -> 400
    [] out = "RuntimeError" -> 502
    [] OTHER -> 500

\* What the database does for one call of the credit functions: every
\* statement succeeds; one up to and including db.commit() fails, so nothing
\* is written; or db.refresh fails after a commit (where there is one).
DbOutcomes == {"ok", "error", "refresh_error"}

\* The row that the query of ensure_credit_balance returns: .first() without
\* an ordering gives any row of the user when there are several, and None (0)
\* when there is none.
RowsRead(rows) == IF rows = <<>> THEN {0} ELSE 1..Len(rows)

\* The user's rows once ensure_credit_balance has added and committed one.
WithNewRow(rows) == Append(rows, DEFAULT_INITIAL_CREDITS)

\* ensure_credit_available on a balance whose credit is c: the cost, or
\* InsufficientCreditsError.
EnsureCreditAvailable(c) ==
  IF CreditCost <= 0 THEN [ok |-> TRUE, cost |-> 0]
  ELSE IF c < CreditCost THEN [ok |-> FALSE, cost |-> 0]
  ELSE [ok |-> TRUE, cost |-> CreditCost]

End(r, code) ==
  [sessions[r] EXCEPT !.pc = "done", !.status = code, !.caller = "none", !.row = 0,
                      !.balance = -1]

\* The rest of the credit check of request r once its balance is known to
\* be c: on to the pipeline with the cost, or 402.
Checked(r, c) ==
  LET e == EnsureCreditAvailable(c)
  IN IF e.ok
     THEN [sessions[r] EXCEPT !.pc = "pipeline", !.guard = TRUE, !.caller = "none",
                              !.row = 0, !.credit_cost = e.cost]
     ELSE [End(r, 402) EXCEPT !.guard = TRUE]

\* spend_credits_for_task up to the comparison, on the row it holds (credit
\* c): the status run_query_v2 ends with, or 0 to go on and deduct.
SpendCheck(c, cost, db) ==
  IF db = "error" THEN 500
  ELSE IF cost <= 0 THEN 200
  ELSE IF c < cost THEN 402
  ELSE 0

\* Request r once ensure_credit_balance has returned row i, whose credit is
\* c, to the function that called it: ensure_credit_available compares it
\* with the cost, spend_credits_for_task does too and goes on to deduct,
\* get_credit_balance hands it to its endpoint, which returns it (200).
Ensured(r, f, i, c) ==
  CASE f = "ensure_credit_available" -> Checked(r, c)
    [] f = "spend_credits_for_task" ->
         LET st == SpendCheck(c, sessions[r].credit_cost, "ok")
         IN IF st # 0 THEN End(r, st)
            ELSE [sessions[r] EXCEPT !.pc = "commit", !.caller = "none", !.row = i,
                                     !.balance = c]
    [] OTHER -> End(r, 200)

\* Request r in an instance of its own, once the query of
\* ensure_credit_balance found no row: the insert is still to come.
ToCreate(r, f) == [sessions[r] EXCEPT !.pc = "create", !.caller = f]

\* POST /assistant/query-v2, run_query_v2 up to the pipeline.  The empty
\* query is refused (400); a request of an unknown user or for another task
\* goes on unchecked; for the others ensure_credit_available reads the
\* user's balance row, creating one with DEFAULT_INITIAL_CREDITS when there
\* is none, and compares its credit with the cost (402); a database error
\* gives 500.  In an instance of its own the request only finds that there is
\* no row here; insert and refresh are steps of their own.  The object loaded
\* is local to ensure_credit_available: the session keeps no strong reference
\* to an unmodified one.
CreditCheck(r) ==
  /\ sessions[r].pc = "start"
  /\ \E q \in Queries, t \in TaskNames, known \in BOOLEAN, db \in DbOutcomes,
        i \in RowsRead(credit_balance) :
       IF SanitizeQuery(q) = ""
       THEN /\ sessions' = [sessions EXCEPT ![r] = End(r, 400)]
            /\ UNCHANGED credit_balance
       ELSE IF db = "error"
       THEN /\ sessions' = [sessions EXCEPT ![r] = End(r, 500)]
            /\ UNCHANGED credit_balance
       ELSE IF ~Guard(known, t)
       THEN /\ sessions' = [sessions EXCEPT ![r] = [@ EXCEPT !.pc = "pipeline"]]
            /\ UNCHANGED credit_balance
       ELSE IF i # 0
       THEN /\ sessions' = [sessions EXCEPT ![r] = Checked(r, credit_balance[i])]
            /\ UNCHANGED credit_balance
       ELSE IF is_serverless
       THEN /\ sessions' = [sessions EXCEPT ![r] =
                              [ToCreate(r, "ensure_credit_available") EXCEPT !.guard = TRUE]]
            /\ UNCHANGED credit_balance
       ELSE /\ credit_balance' = WithNewRow(credit_balance)
            /\ sessions' = [sessions EXCEPT ![r] =
                              IF db = "refresh_error" THEN [End(r, 500) EXCEPT !.guard = TRUE]
                              ELSE Checked(r, credit_balance'[Len(credit_balance')])]
  /\ UNCHANGED <<pipeline, unit, usage, initial_credits, is_serverless>>

\* GET /assistant/credits, get_credit_balance_endpoint: 400 without user_id
\* and user_email, 404 for an unknown user; get_credit_balance reads the
\* user's balance row through ensure_credit_balance, which creates one when
\* there is none; a database error gives 500.
GetCredits(r) ==
  /\ sessions[r].pc = "start"
  /\ \E named \in BOOLEAN, known \in BOOLEAN, db \in DbOutcomes,
        i \in RowsRead(credit_balance) :
       IF ~named
       THEN /\ sessions' = [sessions EXCEPT ![r] = End(r, 400)]
            /\ UNCHANGED credit_balance
       ELSE IF db = "error"
       THEN /\ sessions' = [sessions EXCEPT ![r] = End(r, 500)]
            /\ UNCHANGED credit_balance
       ELSE IF ~known
       THEN /\ sessions' = [sessions EXCEPT ![r] = End(r, 404)]
            /\ UNCHANGED credit_balance
       ELSE IF i # 0
       THEN /\ sessions' = [sessions EXCEPT ![r] =
                              Ensured(r, "get_credit_balance", i, credit_balance[i])]
            /\ UNCHANGED credit_balance
       ELSE IF is_serverless
       THEN /\ sessions' = [sessions EXCEPT ![r] = ToCreate(r, "get_credit_balance")]
            /\ UNCHANGED credit_balance
       ELSE /\ credit_balance' = WithNewRow(credit_balance)
            /\ sessions' = [sessions EXCEPT ![r] =
                              End(r, IF db = "refresh_error" THEN 500 ELSE 200)]
  /\ UNCHANGED <<pipeline, unit, usage, initial_credits, is_serverless>>

\* ensure_credit_balance in an instance of its own, after its query found no
\* row: db.add(balance); db.commit().  Another instance may have created a
\* row in between: no constraint keeps the user to one row.
CreateBalance(r) ==
  /\ is_serverless
  /\ sessions[r].pc = "create"
  /\ \E db \in {"ok", "error"} :
       IF db = "error"
       THEN /\ sessions' = [sessions EXCEPT ![r] = End(r, 500)]
            /\ UNCHANGED credit_balance
       ELSE /\ credit_balance' = WithNewRow(credit_balance)
            /\ sessions' = [sessions EXCEPT ![r] =
                              [@ EXCEPT !.pc = "refresh", !.row = Len(credit_balance')]]
  /\ UNCHANGED <<pipeline, unit, usage, initial_credits, is_serverless>>

\* db.refresh(balance) after that commit reads the row just inserted again,
\* with whatever instances of other requests have written to it since, and
\* ensure_credit_balance returns it to its caller; a failure gives 500.
RefreshBalance(r) ==
  /\ is_serverless
  /\ sessions[r].pc = "refresh"
  /\ \E db \in {"ok", "refresh_error"} :
       sessions' = [sessions EXCEPT ![r] =
                      IF db = "refresh_error" THEN End(r, 500)
                      ELSE Ensured(r, sessions[r].caller, sessions[r].row,
                                   credit_balance[sessions[r].row])]
  /\ UNCHANGED <<pipeline, unit, credit_balance, usage, initial_credits, is_serverless>>

\* A variant of RunPipeline that goes on to spend the credits when the
\* pipeline raised.
RunPipeline_SpendAnyway(r) ==
  /\ sessions[r].pc = "pipeline"
  /\ \E out \in PipelineOutcomes :
       sessions' = [sessions EXCEPT ![r] =
                      [@ EXCEPT !.pc = "spend",
                                !.status = IF out = "result" THEN 0 ELSE PipelineStatus(out)]]
  /\ UNCHANGED <<pipeline, unit, credit_balance, usage, initial_credits, is_serverless>>

\* result = await run_in_threadpool(answer_llm2.answer_query, ...): other
\* requests run meanwhile; an exception ends the request with its status; a
\* result is returned as it is (200) when the request is not one to charge.
RunPipeline(r) ==
  /\ sessions[r].pc = "pipeline"
  /\ \E out \in PipelineOutcomes :
       sessions' = [sessions EXCEPT ![r] =
                      IF out # "result" THEN End(r, PipelineStatus(out))
                      ELSE IF sessions[r].guard THEN [@ EXCEPT !.pc = "spend"]
                      ELSE End(r, 200)]
  /\ UNCHANGED <<pipeline, unit, credit_balance, usage, initial_credits, is_serverless>>

\* The status after balance.credit -= cost; db.add; db.commit(); db.refresh.
CommitStatus(db) == IF db = "ok" THEN 200 ELSE 500

\* Whether db.commit() wrote the new balance and the usage row.
Committed(db) == db # "error"

\* spend_credits_for_task(db, user, task, cost=credit_cost) and the return,
\* in one process: the function is synchronous, so no other request of the
\* process runs between its query of the balance row and its commit.
\* ensure_credit_balance adds a row when the user has none.
SpendCredits(r) ==
  /\ ~is_serverless
  /\ sessions[r].pc = "spend"
  /\ \E db \in DbOutcomes :
       LET rows == IF credit_balance = <<>> THEN WithNewRow(credit_balance)
                   ELSE credit_balance
       IN \E i \in 1..Len(rows) :
            LET cost == sessions[r].credit_cost
                st == SpendCheck(rows[i], cost, db)
            IN IF db = "error"
               THEN /\ sessions' = [sessions EXCEPT ![r] = End(r, 500)]
                    /\ UNCHANGED <<credit_balance, usage>>
               ELSE IF st # 0
               THEN /\ sessions' = [sessions EXCEPT ![r] = End(r, st)]
                    /\ credit_balance' = rows
                    /\ UNCHANGED usage
               ELSE /\ credit_balance' = [rows EXCEPT ![i] = @ - cost]
                    /\ usage' = Append(usage, cost)
                    /\ sessions' = [sessions EXCEPT ![r] = End(r, CommitStatus(db))]
  /\ UNCHANGED <<pipeline, unit, initial_credits, is_serverless>>

\* spend_credits_for_task in an instance of its own, first part:
\* ensure_credit_balance reads a balance row (no lock is taken) and the cost
\* is compared with it; without a row the insert is still to come.
SpendRead(r) ==
  /\ is_serverless
  /\ sessions[r].pc = "spend"
  /\ \E db \in {"ok", "error"}, i \in RowsRead(credit_balance) :
       sessions' = [sessions EXCEPT ![r] =
                      IF db = "error" THEN End(r, 500)
                      ELSE IF i = 0 THEN ToCreate(r, "spend_credits_for_task")
                      ELSE Ensured(r, "spend_credits_for_task", i, credit_balance[i])]
  /\ UNCHANGED <<pipeline, unit, credit_balance, usage, initial_credits, is_serverless>>

\* Second part: balance.credit -= cost is flushed as UPDATE ... SET credit =
\* <the credit read - cost> on the row read, together with the INSERT of the
\* usage row, and committed; instances of other requests may have committed
\* in between.  A failure up to the commit writes nothing and gives 500.
SpendCommit(r) ==
  /\ is_serverless
  /\ sessions[r].pc = "commit"
  /\ \E db \in {"ok", "error"} :
       LET cost == sessions[r].credit_cost
       IN IF Committed(db)
          THEN /\ credit_balance' =
                    [credit_balance EXCEPT ![sessions[r].row] = sessions[r].balance - cost]
               /\ usage' = Append(usage, cost)
               /\ sessions' = [sessions EXCEPT ![r] = [@ EXCEPT !.pc = "spent"]]
          ELSE /\ sessions' = [sessions EXCEPT ![r] = End(r, 500)]
               /\ UNCHANGED <<credit_balance, usage>>
  /\ UNCHANGED <<pipeline, unit, initial_credits, is_serverless>>

\* Third part: db.refresh(balance) after the commit, a query in a new
\* transaction, and the return of run_query_v2; instances of other requests
\* run between the commit and it.  The deduction stays when it fails (500).
SpendRefresh(r) ==
  /\ is_serverless
  /\ sessions[r].pc = "spent"
  /\ \E db \in {"ok", "refresh_error"} :
       sessions' = [sessions EXCEPT ![r] = End(r, CommitStatus(db))]
  /\ UNCHANGED <<pipeline, unit, credit_balance, usage, initial_credits, is_serverless>>

\* The user has a balance row or none, and some requests arrive, all served
\* by one process or each by an instance of its own; answer_query is the one
\* of answer_llm2.
CreditsInit ==
  /\ AtRest
  /\ variant = "llm2"
  /\ fn = "none" /\ fn_in = <<>> /\ fn_out = <<>>
  /\ initial_credits \in Balances \cup {NoRow}
  /\ credit_balance = IF initial_credits = NoRow THEN <<>> ELSE <<initial_credits>>
  /\ usage = <<>>
  /\ sessions = [r \in Requests |-> NewSession]
  /\ is_serverless \in BOOLEAN

CreditsNext ==
  \/ \E r \in Requests : CreditCheck(r)
  \/ \E r \in Requests : GetCredits(r)
  \/ \E r \in Requests : CreateBalance(r)
  \/ \E r \in Requests : RefreshBalance(r)
  \/ \E r \in Requests : RunPipeline(r)
  \/ \E r \in Requests : SpendCredits(r)
  \/ \E r \in Requests : SpendRead(r)
  \/ \E r \in Requests : SpendCommit(r)
  \/ \E r \in Requests : SpendRefresh(r)

SpecCredits == CreditsInit /\ [][CreditsNext]_vars

\* ------------------------------------------------------------------ claims
Called(op) == \E i \in 1..Len(calls) : calls[i].op = op
CalledWith(op, res) == \E i \in 1..Len(calls) : calls[i] = Call(op, res)
Done == pc = "done"
Returned == outcome = "returned"

\* C1: every AnswerResponse that answer_query returns (either variant, any
\* path) lists at most top_k sources.
C1_SourcesAtMostTopK == Returned => Len(response.sources) <= top_k

\* C1, its case: the model's ranking was used, the search found more hits
\* than top_k, and the response lists exactly top_k of them.
C1_Witness ==
  /\ Returned
  /\ path = "model"
  /\ Len(wide_hits) > top_k
  /\ Len(response.sources) = top_k

\* C2 (as claimed): every AnswerResponse returned carries between 1 and 5
\* expanded queries, whatever the expansion model returned.
C2_ExpandedOneToFive ==
  Returned => Len(response.expanded_queries) >= 1 /\ Len(response.expanded_queries) <= ExpandCap

\* C3 (as claimed): when the expansion call raises, returns no JSON, or
\* returns JSON that is not a list of strings, rewrite_queries returns exactly
\* [original query].
C3_RewriteFailsSoft ==
  (calls # <<>> /\ calls[1].res \in {"raise", "nonjson", "nonlist", "badlist"})
    => expanded = OriginalOnly

\* C4: with an empty or blank query, top_k <= 0 or a threshold outside [0,1],
\* answer_query raises ValueError and no external call is ever made.
C4_InvalidArgsRejected ==
  (query \in {"", "  "} \/ top_k <= 0 \/ threshold < 0 \/ threshold > 100)
    => /\ calls = <<>>
       /\ pc \in {"start", "done"}
       /\ Done => outcome = "raised" /\ error = "ValueError"

\* C4, its case: a real query and a positive top_k with a threshold above 1
\* were rejected.
C4_Witness ==
  /\ Done
  /\ query = "q" /\ top_k > 0 /\ threshold > 100
  /\ error = "ValueError"

\* C5: once the embedding call has raised, answer_query has raised the
\* retrieval failure (RuntimeError), there is no response, and the embedding
\* call is the last external call.
C5_EmbedFailureFatal ==
  CalledWith("embed", "raise")
    => /\ Done /\ outcome = "raised" /\ error = "RuntimeError"
       /\ response = NoResponse
       /\ calls[Len(calls)].op = "embed"

\* C5, its case: the embedding call raised.
C5_Witness == Done /\ CalledWith("embed", "raise")

\* The Search stage failed: the one search of answer_llm raised, or the
\* search of every collection of answer_llm2 did.
SearchFailed ==
  \/ CalledWith("search", "raise")
  \/ \A i \in 1..Len(COLLECTIONS) : CalledWith(COLLECTIONS[i], "raise")

\* C6 (as claimed): once the Search stage has failed, answer_query has raised
\* the retrieval failure and neither rerank nor any generation call is made.
C6_SearchFailureFatal ==
  SearchFailed
    => /\ Done /\ outcome = "raised" /\ error = "RuntimeError"
       /\ ~Called("rerank") /\ ~Called("generate") /\ ~Called("generate_fallback")

\* Zero hits survived filtering: the rerank and filter step ran and left no hit.
ZeroHitsSurvive == path # "none" /\ top_hits = <<>>

\* C7 (as claimed): with zero surviving hits both variants return the canned
\* answer with validation None and call neither a generator nor the validator.
C7_CannedForBothVariants ==
  (ZeroHitsSurvive /\ Done)
    => /\ Returned
       /\ response.answer = Canned
       /\ response.validation = NoValidation
       /\ ~Called("generate") /\ ~Called("generate_fallback") /\ ~Called("validate")

\* C7 (amended): with zero surviving hits neither the context-based generator
\* nor the validator is called; answer_llm returns the canned answer with
\* validation None and calls no generator at all; answer_llm2 calls the
\* fallback generator (its last external call), and a response it returns
\* carries that generator's text and validation None.
C7_NoContextPerVariant ==
  ZeroHitsSurvive
    => /\ ~Called("generate") /\ ~Called("validate")
       /\ Done =>
            IF variant = "llm"
            THEN /\ Returned
                 /\ response.answer = Canned
                 /\ response.validation = NoValidation
                 /\ ~Called("generate_fallback")
            ELSE /\ calls[Len(calls)].op = "generate_fallback"
                 /\ Returned => /\ response.answer = answer_text
                                /\ response.validation = NoValidation

\* C7, its case: answer_llm2 found no hit, validation was requested, and the
\* response carries the fallback generator's answer, not the canned one.
C7_Witness ==
  /\ Done /\ Returned
  /\ variant = "llm2" /\ do_validate
  /\ ZeroHitsSurvive
  /\ response.answer = "answer"

\* C8 (as claimed): once a generation call (context-based or fallback) has
\* raised, answer_query has raised the generation failure (RuntimeError) and
\* the validator is never called.
C8_GenerationFailureFatal ==
  (CalledWith("generate", "raise") \/ CalledWith("generate_fallback", "raise"))
    => /\ Done /\ outcome = "raised" /\ error = "RuntimeError"
       /\ ~Called("validate")

\* C9 (as claimed): once the validation call has raised, answer_query has
\* returned a response with the generated answer and the error marker as
\* validation.
C9_ValidationFailureDegrades ==
  CalledWith("validate", "raise")
    => /\ Returned
       /\ response.answer = answer_text
       /\ response.validation = ValidatorError

\* C10 (as claimed): the validator is called only if validation was requested
\* and a hit survived, and never with three empty buckets; a response
\* returned without a validator call has validation None.
C10_ValidatorOnlyWithContext ==
  /\ Called("validate") => do_validate /\ top_hits # <<>> /\ ~CtxEmpty(ctx)
  /\ (Returned /\ ~Called("validate")) => response.validation = NoValidation

\* The threshold rule on an ordered list of candidates: the first top_k of
\* those at or above the threshold, or of all of them when none is.
KeepOrFallBack(ordered, k, thr) ==
  LET kept == SelectSeq(ordered, LAMBDA h : h.score >= thr)
  IN IF kept # <<>> THEN Take(kept, k) ELSE Take(ordered, k)

\* The model reranker was called and yielded nothing usable.
RerankUnusable == Called("rerank") /\ path \notin {"none", "model"}

\* In descending order of the vector score.
ByVectorScore(hits) ==
  \A i \in 1..(Len(hits) - 1) : hits[i].score >= hits[i + 1].score

\* C11 (as claimed): when the model reranker yields nothing usable, both
\* variants order the candidates with the heuristic reranker before the
\* threshold rule, and answer_query has not raised when the rerank call is
\* its last external call.
C11_HeuristicForBoth ==
  RerankUnusable
    => /\ \E err \in Roundings(wide_hits) :
            top_hits = KeepOrFallBack(HeuristicRerank(wide_hits, err), top_k, threshold)
       /\ calls[Len(calls)].op = "rerank" => outcome # "raised"

\* The hits that the collections searched so far returned.
ReturnedSoFar ==
  UNION { Range(col_results[i].hits) : i \in {j \in 1..Len(col_results) : col_results[j].ok} }

\* C12: in multi_search, after each collection (whether failed or not) the
\* results hold exactly the hits returned by the collections that succeeded,
\* each once and tagged with the collection that returned it, and the failure
\* of a collection raises nothing: answer_query is still running when a
\* search is its last external call.
C12_PartialSearchResults ==
  variant = "llm2"
    => /\ Len(col_results) = col
       /\ Range(wide_hits) = ReturnedSoFar
       /\ Len(wide_hits) = Cardinality(ReturnedSoFar)
       /\ \A i \in 1..Len(col_results) :
            /\ col_results[i].ok = CalledWith(COLLECTIONS[i], "ok")
            /\ \A h \in Range(col_results[i].hits) : h.collection = COLLECTIONS[i]
       /\ (calls # <<>> /\ calls[Len(calls)].op \in Range(COLLECTIONS))
            => outcome = "running"
       /\ col = Len(COLLECTIONS) => pc # "search" /\ ByVectorScore(wide_hits)

\* C12, its case: the first and the third collection each returned a hit, the
\* search of the second raised, and multi_search returned both hits.
C12_Witness ==
  /\ variant = "llm2"
  /\ col = Len(COLLECTIONS)
  /\ CalledWith(COLLECTIONS[2], "raise")
  /\ Len(col_results[1].hits) = 1 /\ Len(col_results[3].hits) = 1
  /\ Len(wide_hits) = 2

\* The hits of a list that detect_layer puts in one layer, in the list's order.
OfLayer(hits, layer) == SelectSeq(hits, LAMBDA h : DetectLayer(h.payload) = layer)

\* weighted_blend was called on its own and has returned.
Blended == fn = "weighted_blend" /\ fn_out # <<>>

\* C13: for every top_k > 0 the three target counts of weighted_blend are
\* non-negative and sum to top_k; l1n and l2n are 0.15 * top_k and
\* 0.55 * top_k rounded to a nearest integer and l3n is the remainder.
C13_LayerCountsSumToTopK ==
  (fn = "weighted_blend" /\ fn_in.top_k > 0)
    => LET k == fn_in.top_k
           l1n == L1N(Max(1, k))
           l2n == L2N(Max(1, k))
           l3n == L3N(Max(1, k))
       IN /\ l1n >= 0 /\ l2n >= 0 /\ l3n >= 0
          /\ l1n + l2n + l3n = k
          /\ 2 * (100 * l1n - WeightL1 * k) \in -100..100
          /\ 2 * (100 * l2n - WeightL2 * k) \in -100..100
          /\ l3n = k - l1n - l2n

\* C13, its case: weighted_blend ran with top_k = 5, where 0.15, 0.55 and
\* 0.30 of top_k round to 1, 3 and 2 and only the remainder keeps the sum.
C13_Witness ==
  /\ Blended
  /\ fn_in.top_k = 5
  /\ L1N(5) = 1 /\ L2N(5) = 3 /\ L3N(5) = 1

\* C16: for n distinct scored hits and top_k > 0, weighted_blend returns
\* exactly min(top_k, n) distinct hits of its input, never more than top_k;
\* a hit beyond its layer's target count is taken only when the layers before
\* it in the order L3, L2, L1 have no hit left.
C16_BlendBackfills ==
  (Blended /\ fn_in.top_k > 0)
    => LET k == fn_in.top_k
           input == HitsOf(fn_in.hits_with_scores)
           out == fn_out[1]
           left(l) == Len(OfLayer(input, l)) - Len(OfLayer(out, l))
       IN /\ Len(out) = Min(k, Len(input))
          /\ Len(out) <= k
          /\ Range(out) \subseteq Range(input)
          /\ Cardinality(Range(out)) = Len(out)
          /\ Len(OfLayer(out, "L2")) > L2N(k) => left("L3") = 0
          /\ Len(OfLayer(out, "L1")) > L1N(k) => left("L3") = 0 /\ left("L2") = 0

\* C16, its case: more hits than top_k, no hit of L3, and weighted_blend
\* filled up to top_k with hits of L1 beyond that layer's target.
C16_Witness ==
  /\ Blended
  /\ Len(fn_in.hits_with_scores) > fn_in.top_k
  /\ OfLayer(HitsOf(fn_in.hits_with_scores), "L3") = <<>>
  /\ Len(OfLayer(fn_out[1], "L1")) > L1N(fn_in.top_k)
  /\ Len(fn_out[1]) = fn_in.top_k

\* C17: for each layer, the hits of that layer that weighted_blend returns
\* are the first ones of that layer in its input, in the input's order.
C17_BlendKeepsLayerOrder ==
  Blended
    => \A l \in Layers :
         LET inl == OfLayer(HitsOf(fn_in.hits_with_scores), l)
             outl == OfLayer(fn_out[1], l)
         IN Len(outl) <= Len(inl) /\ outl = Take(inl, Len(outl))

\* C17, its case: two hits of one layer were returned and a third of that
\* layer was left out.
C17_Witness ==
  /\ Blended
  /\ \E l \in Layers :
       /\ Len(OfLayer(fn_out[1], l)) = 2
       /\ Len(OfLayer(HitsOf(fn_in.hits_with_scores), l)) = 3

\* The threshold filter removes every candidate of the reranked order.
FilterEmpties ==
  /\ path # "none"
  /\ ordered_hits # <<>>
  /\ \A i \in 1..Len(ordered_hits) : ordered_hits[i].score < threshold

\* C14 (as claimed): in both rerank paths, when the threshold filter removes
\* every reranked hit the final hits are the first top_k of the unfiltered
\* reranked order; and whenever the search returned a hit, the hits passed on
\* to context building are not empty.
C14_FallBackToFirstTopK ==
  /\ FilterEmpties => top_hits = Take(ordered_hits, top_k)
  /\ (path # "none" /\ wide_hits # <<>>) => top_hits # <<>>

\* C14 (amended): when the threshold filter removes every reranked hit, the
\* final hits are taken from the unfiltered reranked order: its first top_k
\* in the heuristic path of answer_llm and in answer_llm2, and in the model
\* path of answer_llm the min(top_k, n) hits that weighted_blend selects from
\* it; and whenever the search returned a hit, the hits passed on to context
\* building are not empty.
C14_FallBackToUnfiltered ==
  /\ FilterEmpties =>
       IF variant = "llm" /\ path = "model"
       THEN /\ top_hits =
                 WeightedBlend([i \in 1..Len(ordered_hits) |->
                                  [key |-> 0, hit |-> ordered_hits[i]]], top_k)
            /\ Range(top_hits) \subseteq Range(ordered_hits)
            /\ Len(top_hits) = Min(top_k, Len(ordered_hits))
       ELSE top_hits = Take(ordered_hits, top_k)
  /\ (path # "none" /\ wide_hits # <<>>) => top_hits # <<>>

\* C14, its case: answer_llm, the model ranked two hits that are both below
\* the threshold, and the response lists one of them that is not the first
\* of the model's order.
C14_Witness ==
  /\ Returned
  /\ variant = "llm" /\ path = "model"
  /\ FilterEmpties
  /\ Len(ordered_hits) = 2 /\ top_k = 1
  /\ top_hits = <<ordered_hits[2]>>
  /\ ordered_hits[2] # ordered_hits[1]

\* C15 (as claimed): answer_llm2 never calls generate_answer with three empty
\* buckets; a response it returns with three empty buckets was produced by
\* generate_answer_fallback.
C15_FallbackWhenBucketsEmpty ==
  variant = "llm2"
    => /\ Called("generate") => ~CtxEmpty(ctx)
       /\ (Returned /\ CtxEmpty(ctx)) => CalledWith("generate_fallback", "ok")

\* split_context_by_layer was called on its own and has returned.
Split == fn = "split_context_by_layer" /\ fn_out # <<>>

\* The ids of the hits whose block is in one of the three buckets.
Serialized(c) == Range(c.l1) \cup Range(c.l2) \cup Range(c.l3)

\* The sum of the block lengths of the first n hits.
RECURSIVE SumBlockLen(_, _)
SumBlockLen(hits, n) == IF n = 0 THEN 0 ELSE SumBlockLen(hits, n - 1) + BlockLen(hits[n])

\* The hits before the first one whose block makes the running total exceed
\* the budget.
BeforeOverflow(hits) ==
  { i \in 1..Len(hits) : \A j \in 1..i : SumBlockLen(hits, j) <= MaxChars }

\* C18 (as claimed): in both variants the hits whose blocks are serialized
\* are exactly the hits before the first block that would exceed the budget:
\* a prefix of the input, and no hit after that block even if it would fit.
C18_StopAllTruncation ==
  Split => Serialized(fn_out[1]) = { fn_in.hits[i].id : i \in BeforeOverflow(fn_in.hits) }

\* C19 (as claimed): the lengths of the three joined buckets that
\* split_context_by_layer returns add up to at most max_chars.
C19_ContextWithinBudget ==
  Split =>
    JoinedLen(fn_out[1].l1, 1, fn_in.hits) + JoinedLen(fn_out[1].l2, 1, fn_in.hits)
      + JoinedLen(fn_out[1].l3, 1, fn_in.hits) <= MaxChars

\* A layer classifier was called on its own and has returned.
Classified == fn \in {"detect_layer", "_resolve_layer"} /\ fn_out # <<>>

\* A tier field is explicit and valid: present and, stripped and upper-cased,
\* one of L1, L2, L3.
ValidTier(v) == v # "absent" /\ NormTier(v) \in Layers

\* The layer the resolution order gives: (a) the first valid explicit tier
\* field, (b) the tier suffix of the collection, (c) L3 for a clause or
\* sub-section marker, L2 for a section identifier alone, else L1.
ResolutionOrder(p, collection) ==
  IF ValidTier(p.layer) THEN NormTier(p.layer)
  ELSE IF ValidTier(p.level) THEN NormTier(p.level)
  ELSE IF ValidTier(p.chunk_level) THEN NormTier(p.chunk_level)
  ELSE IF CollectionSuffix(collection) \in Layers THEN CollectionSuffix(collection)
  ELSE IF p.clause \/ p.sub_section \/ p.text_paren THEN "L3"
  ELSE IF p.section_number \/ p.section_number_norm THEN "L2"
  ELSE "L1"

\* C20: detect_layer on the hits of answer_llm and _resolve_layer on the hits
\* of answer_llm2 return one of L1, L2, L3, the one the resolution order
\* gives (explicit tier field, then collection suffix, then the structural
\* fields), and every call on the same metadata returns the same layer.
C20_LayerResolutionOrder ==
  Classified
    => \A i \in 1..Len(fn_out) :
         /\ fn_out[i] \in Layers
         /\ fn_out[i] = ResolutionOrder(fn_in.payload, fn_in.collection)
         /\ fn_out[i] = fn_out[1]

\* C20, its case: _resolve_layer was called twice on a payload whose layer
\* field is invalid, whose level field says L1 and which has a sub-section
\* marker, from the collection of tier L2; it answered L1 both times.
C20_Witness ==
  /\ fn = "_resolve_layer" /\ Len(fn_out) = 2
  /\ fn_in.payload.layer = "X" /\ fn_in.payload.level = "L1"
  /\ fn_in.payload.sub_section
  /\ fn_in.collection = COLLECTIONS[2]
  /\ fn_out = <<"L1", "L1">>

\* llm_rerank was called on its own and has returned.
Reranked == fn = "llm_rerank" /\ fn_out # <<>>

\* The rows of the model's answer that name one of the n items it was shown.
ValidRows(rows, n) ==
  SelectSeq(rows, LAMBDA r : r.kind = "ok" /\ 0 <= r.id /\ r.id < n)

\* C21 (as claimed): every (score, hit) pair llm_rerank returns is one of the
\* candidates shown to the model (the first min(len(hits), cap)); when the
\* model answers with a list, the rows whose index is out of range or
\* malformed are dropped and every valid row is still returned.
C21_ValidRowsReturned ==
  Reranked =>
    LET hits == fn_in.hits
        out == fn_in.out
        res == fn_out[1]
        n == Min(Len(hits), RerankCap)
        valid == ValidRows(out.rows, n)
    IN /\ \A i \in 1..Len(res.list) : \E j \in 1..n : res.list[i].hit = hits[j]
       /\ out.kind = "list" =>
            /\ res.some
            /\ Len(res.list) = Len(valid)
            /\ \A i \in 1..Len(valid) :
                 \E j \in 1..Len(res.list) :
                   res.list[j] = [key |-> valid[i].score, hit |-> hits[valid[i].id + 1]]

\* heuristic_rerank was called on its own and has returned.
Heuristic == fn = "heuristic_rerank" /\ fn_out # <<>>

\* Where the hit of a given id stands in a list of hits.
PositionOf(hits, id) == CHOOSE i \in 1..Len(hits) : hits[i].id = id

\* C22 (as claimed): the combined score never decreases when one of
\* vectorNorm (score / max_vec), overlap and prior boost grows and the other
\* two stay the same; and of two hits of the pool with equal overlap and prior
\* boost, the one with the higher raw score comes first in the result of
\* heuristic_rerank.
C22_CombinedMonotone ==
  Heuristic =>
    LET hits == fn_in.hits
        mv == MaxVec(hits)
        ov(h) == h.payload.overlap
        pb(h) == PriorBoostForHit(h.payload)
        norm(h) == IF mv > 0 THEN h.score ELSE -h.score
    IN \A i, j \in 1..Len(hits) :
         LET a == hits[i]
             b == hits[j]
         IN /\ (norm(a) >= norm(b) /\ ov(a) = ov(b) /\ pb(a) = pb(b))
                 => Combined(a, mv) >= Combined(b, mv)
            /\ (a.score = b.score /\ ov(a) >= ov(b) /\ pb(a) = pb(b))
                 => Combined(a, mv) >= Combined(b, mv)
            /\ (a.score = b.score /\ ov(a) = ov(b) /\ pb(a) >= pb(b))
                 => Combined(a, mv) >= Combined(b, mv)
            /\ (a.score > b.score /\ ov(a) = ov(b) /\ pb(a) = pb(b))
                 => PositionOf(fn_out[1], a.id) < PositionOf(fn_out[1], b.id)

\* C23: heuristic_rerank returns a permutation of its input in descending
\* order of the combined score it computed, hits of equal combined score in
\* pool order.
C23_StableDescending ==
  Heuristic =>
    LET hits == fn_in.hits
        out == fn_out[1]
        key(h) == SortKey(hits, fn_in.err, h.id)
    IN /\ Len(out) = Len(hits)
       /\ \A i \in 1..Len(hits) : \E j \in 1..Len(out) : out[j] = hits[i]
       /\ \A i, j \in 1..Len(out) :
            i < j => \/ key(out[i]) > key(out[j])
                     \/ key(out[i]) = key(out[j]) /\ out[i].id < out[j].id

\* Three hits, the first two of equal combined score and the third above
\* them: the third comes first, the two others after it in pool order.
C23_Witness ==
  /\ Heuristic
  /\ Len(fn_in.hits) = 3
  /\ SortKey(fn_in.hits, fn_in.err, 1) = SortKey(fn_in.hits, fn_in.err, 2)
  /\ SortKey(fn_in.hits, fn_in.err, 3) > SortKey(fn_in.hits, fn_in.err, 1)
  /\ fn_out[1] = <<fn_in.hits[3], fn_in.hits[1], fn_in.hits[2]>>

\* The place of an external call in the order of the stages: expansion,
\* embedding, the search of each collection, model rerank, generation (with
\* or without context), validation.
StageRank(op) ==
  CASE op = "expand" -> 1
    [] op = "embed" -> 2
    [] op \in {"search", COLLECTIONS[1]} -> 3
    [] op = COLLECTIONS[2] -> 4
    [] op = COLLECTIONS[3] -> 5
    [] op = "rerank" -> 6
    [] op \in {"generate", "generate_fallback"} -> 7
    [] op = "validate" -> 8

\* C24: the external calls of one answer_query call are issued in the order
\* of the stages and each at most once, whatever their outcome: a call that
\* failed is not issued again.
C24_StagesInOrderOnce ==
  \A i, j \in 1..Len(calls) :
    i < j => StageRank(calls[i].op) < StageRank(calls[j].op)

\* answer_llm2 has made all of its eight calls, the search of the first
\* collection and the model rerank failed, and an answer was returned.
C24_Witness ==
  /\ variant = "llm2"
  /\ Returned
  /\ Len(calls) = 8
  /\ CalledWith(COLLECTIONS[1], "raise")
  /\ CalledWith("rerank", "raise")
  /\ calls[8].op = "validate"

\* C25: once multi_search has queried every collection, its result is the
\* pool of the hits of the collections that answered, as one sequence whose
\* scores never increase, whichever collections failed.
C25_PooledByScore ==
  (variant = "llm2" /\ col = Len(COLLECTIONS))
    => /\ ByVectorScore(wide_hits)
       /\ Range(wide_hits) = ReturnedSoFar

\* The first collection failed, the second returned a hit at 0.70, the third
\* one at 1.00: the result lists the third collection's hit first.
C25_Witness ==
  /\ variant = "llm2"
  /\ col = Len(COLLECTIONS)
  /\ ~col_results[1].ok
  /\ Len(col_results[2].hits) = 1 /\ col_results[2].hits[1].score = 70
  /\ Len(col_results[3].hits) = 1 /\ col_results[3].hits[1].score = 100
  /\ wide_hits = <<col_results[3].hits[1], col_results[2].hits[1]>>

\* C26 (as claimed): no retrieved hit appears twice in the sources of an
\* AnswerResponse, whatever the model reranker answered.
C26_SourcesDistinct ==
  Returned =>
    \A i, j \in 1..Len(response.sources) :
      response.sources[i].id = response.sources[j].id => i = j

\* The buckets of a context that hold the block of the hit of a given id.
BucketsOf(c, id) ==
  { b \in Layers :
      id \in Range(IF b = "L1" THEN c.l1 ELSE IF b = "L2" THEN c.l2 ELSE c.l3) }

\* C27 (as claimed): in answer_llm2 every hit whose block fits the budget is
\* in exactly one bucket of the context, the one named by the layer of the
\* hit's source in the response.
C27_ContextAgreesWithSources ==
  (variant = "llm2" /\ Returned /\ Called("generate"))
    => \A i \in BeforeOverflow(top_hits) :
         BucketsOf(ctx, top_hits[i].id) = {response.sources[i].layer}

\* answer_query is past the threshold filter.
Filtered == pc \in {"generate", "validate", "done"} /\ path # "none"

\* The hits of the reranked order whose vector score reaches the threshold,
\* in that order.
Kept == SelectSeq(ordered_hits, LAMBDA h : h.score >= threshold)

\* s is the start of t.
IsPrefix(s, t) == Len(s) <= Len(t) /\ \A i \in 1..Len(s) : s[i] = t[i]

\* C28: in both variants and on both rerank paths the filter keeps exactly
\* the hits whose vector score is at least the threshold, in reranked order:
\* when it keeps any, the final hits are its first top_k (answer_llm2 and the
\* non-model path of answer_llm) or a choice of min(top_k, kept) of them in
\* which every layer's hits keep that order (weighted_blend); and the score
\* of every source is the score the vector store returned for that hit.
C28_FilterOnVectorScore ==
  /\ (Filtered /\ Kept # <<>>)
       => IF variant = "llm" /\ path = "model"
          THEN /\ Len(top_hits) = Min(top_k, Len(Kept))
               /\ \A l \in Layers : IsPrefix(OfLayer(top_hits, l), OfLayer(Kept, l))
          ELSE top_hits = Take(Kept, top_k)
  /\ Returned
       => \A i \in 1..Len(response.sources) :
            \E j \in 1..Len(wide_hits) :
              /\ wide_hits[j].id = response.sources[i].id
              /\ wide_hits[j].score = response.sources[i].score

\* The model reranker put a hit below the threshold first and one at the
\* threshold second; the response's only source is the second, with its
\* vector score.
C28_Witness ==
  /\ Returned
  /\ path = "model"
  /\ Len(ordered_hits) = 2
  /\ ordered_hits[1].score < threshold
  /\ ordered_hits[2].score >= threshold
  /\ top_k = 2
  /\ Len(response.sources) = 1
  /\ response.sources[1].id = ordered_hits[2].id
  /\ response.sources[1].score = ordered_hits[2].score

\* The sum of a sequence of numbers.
RECURSIVE SumSeq(_)
SumSeq(q) == IF q = <<>> THEN 0 ELSE Head(q) + SumSeq(Tail(q))

\* Every request of the user has ended.
Quiescent == \A r \in Requests : sessions[r].pc = "done"

\* The balance the user starts with: the credit of the user's row, or the
\* credit ensure_credit_balance gives a user without one.
InitialBalance ==
  IF initial_credits = NoRow THEN DEFAULT_INITIAL_CREDITS ELSE initial_credits

\* C29 (as claimed): whatever the interleaving of the user's /query-v2
\* requests, the balance is never negative, and once every request has ended
\* it is the initial balance minus the sum of credit_reduct over the usage
\* rows written.
C29_CreditsAccounted ==
  /\ \A i \in 1..Len(credit_balance) : credit_balance[i] >= 0
  /\ Quiescent
       => \A i \in 1..Len(credit_balance) :
            credit_balance[i] = InitialBalance - SumSeq(usage)

\* The accounting of C29 where one process serves all the requests.
CreditsAccountedInOneProcess ==
  ~is_serverless
    => /\ Len(credit_balance) <= 1
       /\ \A i \in 1..Len(credit_balance) : credit_balance[i] >= 0
       /\ Quiescent
            => \A i \in 1..Len(credit_balance) :
                 credit_balance[i] = InitialBalance - SumSeq(usage)

\* A step that spends: it writes a usage row or changes the credit of a row
\* the user already has.
Spends ==
  \/ usage' # usage
  \/ \E i \in 1..Len(credit_balance) :
       i > Len(credit_balance') \/ credit_balance'[i] # credit_balance[i]

\* What run_query_v2 does around the pipeline, in every step: the pipeline
\* is entered by a request to charge only when its credit check found a
\* balance that covers the cost, a request refused with 402 never enters it,
\* a request whose pipeline raised ends there, and a request that ended stays
\* as it is.
AroundPipeline ==
  \A r \in Requests :
    /\ (sessions[r].pc \in {"start", "refresh"} /\ sessions'[r].pc = "pipeline"
          /\ sessions'[r].guard)
         => \E i \in 1..Len(credit_balance') : credit_balance'[i] >= CreditCost
    /\ (sessions[r].pc \in {"start", "refresh"} /\ sessions'[r].status = 402)
         => sessions'[r].pc = "done"
    /\ (sessions[r].pc = "pipeline" /\ sessions'[r].status # 0)
         => sessions'[r].pc = "done"
    /\ sessions[r].pc = "done" => sessions'[r] = sessions[r]

\* The step is the one of spend_credits_for_task that commits, taken by a
\* request whose pipeline returned a result: it writes one usage row of the
\* request's cost, and the request ends with it (one process) or goes on to
\* its refresh (an instance of its own).
SpendAfterResult ==
  \E r \in Requests :
    /\ sessions[r].pc \in {"spend", "commit"} /\ sessions[r].status = 0
    /\ sessions[r].guard
    /\ \/ sessions'[r].pc = "done" /\ sessions'[r].status \in {200, 500}
       \/ sessions'[r].pc = "spent" /\ sessions'[r].status = 0
    /\ usage' = Append(usage, sessions[r].credit_cost)

\* C30 (as claimed): in run_query_v2 the pipeline is entered only after a
\* credit check that passed, and the user's balance rows and usage rows are
\* left as they are by every step of a request except the spend of a request
\* whose pipeline returned a result; so they are as they were when the credit
\* check failed or the pipeline raised.
C30_SpendOnlyAfterResult ==
  [][ /\ AroundPipeline
      /\ (credit_balance' # credit_balance \/ usage' # usage) => SpendAfterResult
    ]_vars

\* C30 (amended): in run_query_v2 the pipeline is entered only after a credit
\* check that passed; credits are deducted and usage rows written only by
\* the spend of a request whose pipeline returned a result, and the step in
\* which the pipeline raises changes neither table.  The one other write is
\* ensure_credit_balance giving a user without a balance row one with the
\* default credits, in the credit check (before the pipeline, whatever the
\* pipeline then does) or in GET /assistant/credits; it changes no row the
\* user has.
C30_DeductOnlyAfterResult ==
  [][ /\ AroundPipeline
      /\ \A r \in Requests :
           (sessions[r].pc = "pipeline" /\ sessions'[r] # sessions[r])
             => credit_balance' = credit_balance /\ usage' = usage
      /\ Spends => SpendAfterResult
      /\ (~Spends /\ credit_balance' # credit_balance)
           => /\ credit_balance' = WithNewRow(credit_balance)
              /\ \E r \in Requests :
                   /\ sessions[r].pc \in {"start", "create", "spend"}
                   /\ sessions'[r] # sessions[r]
    ]_vars

\* C30, its case: the user had no balance row; the credit check of one
\* request created it, that request's pipeline raised RuntimeError, and
\* another request got its result and spent: one row, one usage row.
C30_Witness ==
  /\ Quiescent
  /\ initial_credits = NoRow
  /\ \E b, c \in Requests :
       /\ sessions[b].status = 502 /\ sessions[b].guard
       /\ sessions[c].status = 200 /\ sessions[c].guard /\ sessions[c].credit_cost = CreditCost
  /\ usage = <<CreditCost>>
  /\ credit_balance = <<DEFAULT_INITIAL_CREDITS - CreditCost>>

====
